---- MODULE Spec2Model ----
(***************************************************************************)
(* Model of money_fest's CSV ingestion: detect_csv_format, get_parser,     *)
(* AceMoneyParser, DanskeBankParser and CSVGenerator                       *)
(* (src/money_fest/app/services/csv_parser.py).                            *)
(*                                                                         *)
(* A byte buffer is a sequence of tokens.  A token is one byte, written as *)
(* its ASCII character ("," ";" "1" ...) or as "0xNN" for a byte above     *)
(* 0x7F, or a run of ASCII letters kept together as one word ("Dato").     *)
(* Decoded text is a sequence of the same ASCII tokens and of "U+NNNN"     *)
(* tokens for the characters above U+007F.                                 *)
(***************************************************************************)
EXTENDS Integers, Sequences, FiniteSets, TLC

VARIABLES
    file_content,   \* the bytes handed to detect_csv_format, get_parser and parse
    libcPadsYear,   \* whether the C library's strftime pads %Y to four digits
    detected,       \* what detect_csv_format(file_content) did
    factory,        \* what get_parser(file_content) did
    validated,      \* which parser validated file_content, and the errors it found
    parsed,         \* which parser parsed file_content, and what parse did
    generated,      \* what CSVGenerator.generate did with the parsed records
    reparsed,       \* what AceMoneyParser.parse did with the generated bytes
    frames,         \* the calls in progress of two concurrent callers, one frame each
    database,       \* the rows of the tables categories, batches and transactions, and their id sequences
    request,        \* the last request served: its arguments, its status code, the database before it
    threads,        \* the calls of update_transaction in progress on connections of their own
    manager,        \* the ConnectionManager: active_connections and batch_subscriptions
    endpoints,      \* websocket_endpoint of each websocket: where it is, and whether its peer is there
    broadcast       \* the call of broadcast_to_batch in progress: its iterator, its sends, its result

vars == <<file_content, libcPadsYear, detected, factory, validated, parsed, generated, reparsed, frames, database, request,
          threads, manager, endpoints, broadcast>>

\* ---------------------------------------------------------------- text --

Min(S) == CHOOSE x \in S : \A y \in S : x <= y
Max(S) == CHOOSE x \in S : \A y \in S : x >= y

RECURSIVE Flatten(_)
Flatten(ss) == IF ss = <<>> THEN <<>> ELSE Head(ss) \o Flatten(Tail(ss))

\* The characters bytes.strip() and str.strip() remove (of those in the model).
Whitespace == {" ", "\t", "\n", "\r"}

\* s.strip(chars)
StripChars(s, chars) ==
    LET keep == {i \in 1..Len(s) : s[i] \notin chars}
    IN  IF keep = {} THEN <<>> ELSE SubSeq(s, Min(keep), Max(keep))

\* s.strip()
Strip(s) == StripChars(s, Whitespace)

\* s.strip().strip('"')
StripQuoted(s) == StripChars(Strip(s), {"\""})

\* c.lower() for one token.
LowerTok(t) ==
    CASE t = "Dato" -> "dato"
      [] t = "Tekst" -> "tekst"
      [] t = "Saldo" -> "saldo"
      [] t = "Status" -> "status"
      [] t = "Afstemt" -> "afstemt"
      [] t = "Bel" -> "bel"
      [] t = "Transaction" -> "transaction"
      [] t = "Date" -> "date"
      [] t = "Num" -> "num"
      [] t = "S" -> "s"
      [] t = "L" -> "l"
      [] t = "M" -> "m"
      [] t = "N" -> "n"
      [] t = "P" -> "p"
      [] t = "Q" -> "q"
      [] t = "T" -> "t"
      [] t = "U" -> "u"
      [] t = "Food" -> "food"
      [] t = "Sub" -> "sub"
      [] t = "Other" -> "other"
      [] OTHER -> t

\* s.lower()
Lower(s) == [i \in 1..Len(s) |-> LowerTok(s[i])]

\* text.split('\n')[0]
FirstLine(text) ==
    LET nl == {i \in 1..Len(text) : text[i] = "\n"}
    IN  IF nl = {} THEN text ELSE SubSeq(text, 1, Min(nl) - 1)

\* sub in s, for sequences of tokens
Contains(s, sub) ==
    \E i \in 0..(Len(s) - Len(sub)) : SubSeq(s, i + 1, i + Len(sub)) = sub

\* ------------------------------------------------------------ encodings --

HighBytes == {"0xF8", "0xC3", "0xB8", "0xE2", "0x82", "0xAC"}

\* The length of the UTF-8 sequence a byte starts; 0 for a byte that starts
\* none (a continuation byte, or 0xF8).
Utf8Len(t) == IF t = "0xC3" THEN 2 ELSE IF t = "0xE2" THEN 3 ELSE 0

\* The character a two- or three-byte UTF-8 sequence encodes; "" when the
\* bytes are no valid sequence.
Utf8Char(bs) ==
    CASE bs = <<"0xC3", "0xB8">> -> "U+00F8"
      [] bs = <<"0xE2", "0x82", "0xAC">> -> "U+20AC"
      [] OTHER -> ""

\* file_content.decode('utf-8'): every byte above 0x7F starts a valid
\* sequence or continues the sequence a byte before it starts.
DecodeUtf8(b) ==
    LET inside(i) == \E j \in {i - 1, i - 2} : j >= 1 /\ Utf8Len(b[j]) > i - j
        char(i) ==
            IF b[i] \notin HighBytes THEN b[i]
            ELSE IF Utf8Len(b[i]) = 0 \/ i + Utf8Len(b[i]) - 1 > Len(b) THEN ""
            ELSE Utf8Char(SubSeq(b, i, i + Utf8Len(b[i]) - 1))
        bad == {i \in 1..Len(b) : IF inside(i) THEN Utf8Len(b[i]) > 0 ELSE char(i) = ""}
        chars == [i \in 1..Len(b) |-> IF inside(i) THEN "" ELSE char(i)]
    IN  IF bad # {} THEN [ok |-> FALSE, text |-> <<>>]
        ELSE [ok |-> TRUE, text |-> SelectSeq(chars, LAMBDA c : c # "")]

\* One byte decoded as latin-1 (iso-8859-1): every byte is a character.
Latin1Char(t) ==
    CASE t = "0xF8" -> "U+00F8"
      [] t = "0xC3" -> "U+00C3"
      [] t = "0xB8" -> "U+00B8"
      [] t = "0xE2" -> "U+00E2"
      [] t = "0x82" -> "U+0082"
      [] t = "0xAC" -> "U+00AC"
      [] OTHER -> t

\* file_content.decode(encoding); ok = FALSE is UnicodeDecodeError.
Decode(b, encoding) ==
    IF encoding = "utf-8" THEN DecodeUtf8(b)
    ELSE [ok |-> TRUE, text |-> [i \in 1..Len(b) |-> Latin1Char(b[i])]]

\* One character encoded as latin-1; "" when it is above U+00FF.
Latin1Byte(t) ==
    CASE t = "U+00F8" -> "0xF8"
      [] t = "U+00C3" -> "0xC3"
      [] t = "U+00B8" -> "0xB8"
      [] t = "U+00E2" -> "0xE2"
      [] t = "U+0082" -> "0x82"
      [] t = "U+00AC" -> "0xAC"
      [] t = "U+20AC" -> ""
      [] OTHER -> t

\* csv_text.encode('latin-1'); ok = FALSE is UnicodeEncodeError.
EncodeLatin1(text) ==
    IF \E i \in 1..Len(text) : Latin1Byte(text[i]) = ""
    THEN [ok |-> FALSE, bytes |-> <<>>]
    ELSE [ok |-> TRUE, bytes |-> [i \in 1..Len(text) |-> Latin1Byte(text[i])]]

\* A check for the empty file that misses the whitespace-only buffer:
\* C2_EmptyInput tells it from IsEmptyFile.
ZeroLength(b) == Len(b) = 0

\* not file_content or len(file_content.strip()) == 0
IsEmptyFile(b) == Len(b) = 0 \/ Len(StripChars(b, Whitespace)) = 0

\* ----------------------------------------------------------- csv.reader --
\* The reader of Python's csv module in its default dialect (quotechar '"',
\* doublequote, not strict), fed the lines of io.StringIO(text): a line ends
\* after each "\n", and the reader sees an end-of-line mark after each line.

EOL == "<EOL>"

\* One character through the reader's state machine.
ProcessChar(st, c, delim, field, fields) ==
    LET nl == c \in {"\n", "\r", EOL}
        after == IF c = EOL THEN "START_RECORD" ELSE "EAT_CRNL"
        same == [st |-> st, field |-> field, fields |-> fields, error |-> FALSE]
        save(s) == [st |-> s, field |-> <<>>, fields |-> Append(fields, field), error |-> FALSE]
        add(s) == [st |-> s, field |-> Append(field, c), fields |-> fields, error |-> FALSE]
        start ==
            IF nl THEN save(after)
            ELSE IF c = "\"" THEN [same EXCEPT !.st = "IN_QUOTED_FIELD"]
            ELSE IF c = delim THEN save("START_FIELD")
            ELSE add("IN_FIELD")
    IN  CASE st = "START_RECORD" ->
               IF c = EOL THEN same
               ELSE IF nl THEN [same EXCEPT !.st = "EAT_CRNL"]
               ELSE start
          [] st = "START_FIELD" -> start
          [] st = "IN_FIELD" ->
               IF nl THEN save(after)
               ELSE IF c = delim THEN save("START_FIELD")
               ELSE add("IN_FIELD")
          [] st = "IN_QUOTED_FIELD" ->
               IF c = EOL THEN same
               ELSE IF c = "\"" THEN [same EXCEPT !.st = "QUOTE_IN_QUOTED_FIELD"]
               ELSE add("IN_QUOTED_FIELD")
          [] st = "QUOTE_IN_QUOTED_FIELD" ->
               IF c = "\"" THEN add("IN_QUOTED_FIELD")
               ELSE IF c = delim THEN save("START_FIELD")
               ELSE IF nl THEN save(after)
               ELSE add("IN_FIELD")
          [] OTHER -> \* EAT_CRNL
               IF c \in {"\n", "\r"} THEN same
               ELSE IF c = EOL THEN [same EXCEPT !.st = "START_RECORD"]
               ELSE [same EXCEPT !.error = TRUE]

\* What next(reader) gives: the record and where the following one starts;
\* stop = StopIteration, error = csv.Error.
Record(fields, next) == [fields |-> fields, next |-> next, stop |-> FALSE, error |-> FALSE]
ReaderStop(next) == [fields |-> <<>>, next |-> next, stop |-> TRUE, error |-> FALSE]
ReaderError(next) == [fields |-> <<>>, next |-> next, stop |-> FALSE, error |-> TRUE]

\* The reader at character i of text, or at the end-of-line mark after
\* character i when eol.  ReaderStep has the state a the machine is in after
\* that character.
RECURSIVE ReaderRun(_, _, _, _, _, _, _)
RECURSIVE ReaderStep(_, _, _, _, _)
ReaderRun(text, i, eol, delim, st, field, fields) ==
    IF i > Len(text) THEN Record(Append(fields, field), i)
    ELSE ReaderStep(text, i, eol, delim,
             ProcessChar(st, IF eol THEN EOL ELSE text[i], delim, field, fields))

ReaderStep(text, i, eol, delim, a) ==
    IF a.error THEN ReaderError(i + 1)
    ELSE IF eol /\ a.st = "START_RECORD" THEN Record(a.fields, i + 1)
    ELSE IF eol \/ ~(text[i] = "\n" \/ i = Len(text))
    THEN ReaderRun(text, i + 1, FALSE, delim, a.st, a.field, a.fields)
    ELSE ReaderRun(text, i, TRUE, delim, a.st, a.field, a.fields)

\* next(reader) with the reader positioned at character i of text.
ReaderNext(text, i, delim) ==
    IF i > Len(text) THEN ReaderStop(i)
    ELSE ReaderRun(text, i, FALSE, delim, "START_RECORD", <<>>, <<>>)

\* -------------------------------------------------------------- results --
\* What a call does: exc = "" when it returns value, else the exception's
\* class, with msg the parts of its message.

Returns(v) == [exc |-> "", msg |-> <<>>, value |-> v]
Raises(cls, m, v) == [exc |-> cls, msg |-> m, value |-> v]

CsvErrorMsg == <<"new-line character seen in unquoted field">>

\* ------------------------------------------------------------- headers --

AceExpectedHeaders ==
    << <<"transaction">>, <<"date">>, <<"payee">>, <<"category">>, <<"status">>,
       <<"withdrawal">>, <<"deposit">>, <<"total">>, <<"comment">> >>

\* HEADER_ALIASES.get(normalized, normalized)
HeaderAlias(normalized) ==
    CASE normalized = <<"num">> -> <<"transaction">>
      [] normalized = <<"s">> -> <<"status">>
      [] OTHER -> normalized

\* A normalization that trims and applies the aliases but keeps the case:
\* C16_HeadersAsCompared tells it from normalize_header.
TrimAndAlias(header) == HeaderAlias(Strip(header))

\* AceMoneyParser.normalize_header
normalize_header(header) == HeaderAlias(Lower(Strip(header)))

NormalizeAll(headers) == [i \in 1..Len(headers) |-> normalize_header(headers[i])]

Beloeb == <<"Bel", "U+00F8", "b">>

DanskeExpectedHeaders ==
    << <<"Dato">>, <<"Tekst">>, Beloeb, <<"Saldo">>, <<"Status">>, <<"Afstemt">> >>

DanskeRequiredHeaders == << <<"Dato">>, <<"Tekst">>, <<"Saldo">>, <<"Status">> >>

\* [h.strip().strip('"') for h in headers]
StripQuotedAll(headers) == [i \in 1..Len(headers) |-> StripQuoted(headers[i])]

\* x in list
InList(x, list) == \E i \in 1..Len(list) : list[i] = x

\* headers == EXPECTED_HEADERS or all(req in headers for req in REQUIRED_HEADERS)
DanskeHeadersMatch(headers) ==
    \/ headers = DanskeExpectedHeaders
    \/ \A k \in 1..Len(DanskeRequiredHeaders) : InList(DanskeRequiredHeaders[k], headers)

\* A check that looks at the first header only:
\* C17_NoFalsePositives tells it from AceHeadersMatch.
AceFirstHeaderMatches(headers) == Len(headers) > 0 /\ headers[1] = <<"transaction">>

\* headers == expected
AceHeadersMatch(headers) == headers = AceExpectedHeaders

\* ----------------------------------------------------- detect_csv_format --

\* for encoding in ['utf-8', 'iso-8859-1']
DanskeEncodings == <<"utf-8", "iso-8859-1">>

\* What a pass of detection does with the first record r of the reader:
\* "match" (return), "no" (falls through) or "csv.Error" (next(reader)
\* raises it and no except clause catches it).
DanskeDetectHeaders(r) ==
    IF r.error THEN "csv.Error"
    ELSE IF ~r.stop /\ DanskeHeadersMatch(StripQuotedAll(r.fields)) THEN "match"
    ELSE "no"

\* One pass of the loop over encodings, d being file_content.decode(encoding).
DanskeDetectText(d) ==
    IF ~d.ok \/ ~InList(";", FirstLine(d.text)) THEN "no"
    ELSE DanskeDetectHeaders(ReaderNext(d.text, 1, ";"))

DanskeDetectTry(b, encoding) == DanskeDetectText(Decode(b, encoding))

AceDetectHeaders(r) ==
    IF r.error THEN "csv.Error"
    ELSE IF ~r.stop /\ AceHeadersMatch(NormalizeAll(r.fields)) THEN "match"
    ELSE "no"

\* The AceMoney attempt on text = file_content.decode('latin-1').
AceDetectText(text) ==
    IF ~InList(",", FirstLine(text)) THEN "no"
    ELSE AceDetectHeaders(ReaderNext(text, 1, ","))

AceDetectTry(b) == AceDetectText(Decode(b, "latin-1").text)

FileIsEmptyMsg == <<"File is empty">>
CouldNotDetectMsg == <<"Could not detect CSV format. File must be either AceMoney (latin-1, comma-delimited) or Danske Bank (UTF-8, semicolon-delimited) format">>

\* detect_csv_format past the check for an empty file: danske[k] is what the
\* k-th pass of the loop over encodings does, ace what the AceMoney attempt
\* does; the first that is not "no" decides.
DetectOutcome(danske, ace) ==
    LET decided == {k \in 1..Len(danske) : danske[k] # "no"}
        first == IF decided = {} THEN ace ELSE danske[Min(decided)]
    IN  IF first = "csv.Error" THEN Raises("Error", CsvErrorMsg, "")
        ELSE IF first = "no" THEN Raises("ValueError", CouldNotDetectMsg, "")
        ELSE IF decided = {} THEN Returns("acemoney")
        ELSE Returns("danske_bank")

detect_csv_format(b) ==
    IF IsEmptyFile(b) THEN Raises("ValueError", FileIsEmptyMsg, "")
    ELSE DetectOutcome(
             [k \in 1..Len(DanskeEncodings) |-> DanskeDetectTry(b, DanskeEncodings[k])],
             AceDetectTry(b))

\* A factory that builds an AceMoneyParser for every format detected:
\* C13_FactoryFollowsDetection tells it from ParserFor.
ParserForAnyFormat(format_type) ==
    IF format_type.exc # "" THEN format_type ELSE Returns("AceMoneyParser")

\* The parser get_parser builds for format_type, what detect_csv_format did:
\* its exception passes through.
ParserFor(format_type) ==
    IF format_type.exc # "" THEN format_type
    ELSE IF format_type.value = "acemoney" THEN Returns("AceMoneyParser")
    ELSE IF format_type.value = "danske_bank" THEN Returns("DanskeBankParser")
    ELSE Raises("ValueError", <<"Unknown format type: ", format_type.value>>, "")

\* get_parser: the class of the parser returned.
get_parser(b) == ParserFor(detect_csv_format(b))

\* ------------------------------------------------------------- validate --

InvalidHeadersAce == <<"Invalid headers.">>
InvalidHeadersDanske == <<"Invalid headers. Expected: Dato; Tekst; Beloeb; Saldo; Status; Afstemt">>
NoDataMsg == <<"File contains no data (not even headers)">>
FailedToParseCsv == <<"Failed to parse CSV: ">> \o CsvErrorMsg
FailedToDecode == <<"Failed to decode file with UTF-8 or ISO-8859-1 encoding">>

\* The errors AceMoneyParser.validate finds with r the first record.
AceValidateHeaders(r) ==
    IF r.stop THEN <<NoDataMsg>>
    ELSE IF r.error THEN <<FailedToParseCsv>>
    ELSE IF ~AceHeadersMatch(NormalizeAll(r.fields)) THEN <<InvalidHeadersAce>>
    ELSE <<>>

\* AceMoneyParser.validate: the list of error messages.
AceValidate(b) ==
    IF IsEmptyFile(b) THEN <<FileIsEmptyMsg>>
    ELSE AceValidateHeaders(ReaderNext(Decode(b, "latin-1").text, 1, ","))

\* The decoding loop of DanskeBankParser: utf-8, else iso-8859-1.
DanskeDecode(b) == IF Decode(b, "utf-8").ok THEN Decode(b, "utf-8") ELSE Decode(b, "iso-8859-1")

\* The errors DanskeBankParser.validate finds with r the first record.
DanskeValidateHeaders(r) ==
    IF r.stop THEN <<NoDataMsg>>
    ELSE IF r.error THEN <<FailedToParseCsv>>
    ELSE IF ~DanskeHeadersMatch(StripQuotedAll(r.fields)) THEN <<InvalidHeadersDanske>>
    ELSE <<>>

\* DanskeBankParser.validate past the check for an empty file, d being the
\* decoded file.
DanskeValidateText(d) ==
    IF ~d.ok \/ d.text = <<>> THEN <<FailedToDecode>>
    ELSE DanskeValidateHeaders(ReaderNext(d.text, 1, ";"))

\* DanskeBankParser.validate: the list of error messages.
DanskeValidate(b) ==
    IF IsEmptyFile(b) THEN <<FileIsEmptyMsg>> ELSE DanskeValidateText(DanskeDecode(b))

\* --------------------------------------------------------------- dates --

Digits == {"0", "1", "2", "3", "4", "5", "6", "7", "8", "9"}

DigitVal(t) ==
    CASE t = "0" -> 0 [] t = "1" -> 1 [] t = "2" -> 2 [] t = "3" -> 3 [] t = "4" -> 4
      [] t = "5" -> 5 [] t = "6" -> 6 [] t = "7" -> 7 [] t = "8" -> 8 [] OTHER -> 9

IsDigits(s) == \A i \in 1..Len(s) : s[i] \in Digits

RECURSIVE DigitsVal(_)
DigitsVal(s) == IF s = <<>> THEN 0 ELSE 10 * DigitsVal(SubSeq(s, 1, Len(s) - 1)) + DigitVal(s[Len(s)])

RECURSIVE NatDigits(_)
NatDigits(n) == IF n < 10 THEN <<ToString(n)>> ELSE Append(NatDigits(n \div 10), ToString(n % 10))

\* n written with at least w digits, zero-padded.
RECURSIVE ZeroPad(_, _)
ZeroPad(s, w) == IF Len(s) >= w THEN s ELSE ZeroPad(<<"0">> \o s, w)

IsLeap(y) == (y % 4 = 0 /\ y % 100 # 0) \/ y % 400 = 0

DaysInMonth(y, m) ==
    IF m = 2 THEN (IF IsLeap(y) THEN 29 ELSE 28)
    ELSE IF m \in {4, 6, 9, 11} THEN 30 ELSE 31

\* A segment of one or two digits with a value from 1 to most, else -1.
UpTo(seg, most) ==
    IF Len(seg) \in {1, 2} /\ IsDigits(seg) /\ DigitsVal(seg) \in 1..most
    THEN DigitsVal(seg) ELSE -1

\* What a directive of strptime matches, as the regular expression of
\* _strptime does: %d 3[0-1]|[1-2]\d|0[1-9]|[1-9]| [1-9], %m 1[0-2]|0[1-9]|[1-9],
\* %Y \d\d\d\d.  -1 when the segment does not match.
DirectiveVal(directive, seg) ==
    CASE directive = "%Y" -> IF Len(seg) = 4 /\ IsDigits(seg) THEN DigitsVal(seg) ELSE -1
      [] directive = "%m" -> UpTo(seg, 12)
      [] OTHER -> \* %d
           IF Len(seg) = 2 /\ seg[1] = " " /\ seg[2] \in Digits \ {"0"}
           THEN DigitVal(seg[2]) ELSE UpTo(seg, 31)

\* The three parts of s around its two separators; <<>> when s does not hold
\* the separator exactly twice.
Segments(s, sep) ==
    LET seps == {i \in 1..Len(s) : s[i] = sep}
    IN  IF Cardinality(seps) # 2 THEN <<>>
        ELSE << SubSeq(s, 1, Min(seps) - 1),
                SubSeq(s, Min(seps) + 1, Max(seps) - 1),
                SubSeq(s, Max(seps) + 1, Len(s)) >>

\* strptime raising ValueError with the message why.
DateError(why) == [ok |-> FALSE, why |-> why, year |-> 0, month |-> 0, day |-> 0]

\* The time data does not match the format.
NoDate == DateError(<<"no match">>)

\* The date of the values vals of the three directives of fmt: the year is
\* at least 1 and the day is one of the month.  A value that
\* no directive matched is no match; %Y matches 0000, which is no year.
DateOf(fmt, vals) ==
    LET y == vals[CHOOSE k \in 1..3 : fmt[2 * k - 1] = "%Y"]
        m == vals[CHOOSE k \in 1..3 : fmt[2 * k - 1] = "%m"]
        d == vals[CHOOSE k \in 1..3 : fmt[2 * k - 1] = "%d"]
    IN  IF y < 0 \/ m < 1 \/ d < 1 THEN NoDate
        ELSE IF y = 0 THEN DateError(<<"year 0 is out of range">>)
        ELSE IF d > DaysInMonth(y, m) THEN DateError(<<"day is out of range for month">>)
        ELSE [ok |-> TRUE, why |-> <<>>, year |-> y, month |-> m, day |-> d]

\* datetime.strptime(s, fmt) for a format of three directives around one
\* separator, fmt = <<d1, sep, d2, sep, d3>>; ok = FALSE is ValueError.
strptime(s, fmt) ==
    IF Segments(s, fmt[2]) = <<>> THEN NoDate
    ELSE DateOf(fmt, [k \in 1..3 |-> DirectiveVal(fmt[2 * k - 1], Segments(s, fmt[2])[k])])

FmtDMYdot == <<"%d", ".", "%m", ".", "%Y">>
FmtDMYdash == <<"%d", "-", "%m", "-", "%Y">>
FmtYMDslash == <<"%Y", "/", "%m", "/", "%d">>
FmtYMDdash == <<"%Y", "-", "%m", "-", "%d">>

\* The formats AceMoneyParser.parse tries, in its order.
AceDateFormats == <<FmtDMYdot, FmtDMYdash, FmtYMDslash, FmtYMDdash>>

\* strftime's %Y: the C library decides whether a year below 1000 is padded
\* to four digits (glibc does not pad).
YearText(y) == IF libcPadsYear THEN ZeroPad(NatDigits(y), 4) ELSE NatDigits(y)

\* date_obj.strftime(fmt)
strftime(date, fmt) ==
    Flatten([k \in 1..Len(fmt) |->
        CASE fmt[k] = "%Y" -> YearText(date.year)
          [] fmt[k] = "%m" -> ZeroPad(NatDigits(date.month), 2)
          [] fmt[k] = "%d" -> ZeroPad(NatDigits(date.day), 2)
          [] OTHER -> <<fmt[k]>>])

\* -------------------------------------------------------------- floats --
\* A float is its kind (finite, nan, inf), its sign bit and, when finite,
\* its magnitude in thousandths.

Float(kind, neg, milli) == [kind |-> kind, neg |-> neg, milli |-> milli]

\* -x
Negate(x) == [x EXCEPT !.neg = ~x.neg]

\* abs(x)
Abs(x) == [x EXCEPT !.neg = FALSE]

\* x < 0
LessThanZero(x) == x.kind # "nan" /\ x.neg /\ (x.kind = "inf" \/ x.milli > 0)

\* x >= 0
AtLeastZero(x) == x.kind # "nan" /\ ~LessThanZero(x)

\* x > 0
GreaterThanZero(x) == x.kind # "nan" /\ ~x.neg /\ (x.kind = "inf" \/ x.milli > 0)

NoFloat == [ok |-> FALSE, x |-> Float("nan", FALSE, 0)]

\* The float of the numeral u that follows the sign: nan, inf or a decimal
\* numeral of at most three decimals.
FloatOfNumeral(neg, u) ==
    LET dots == {i \in 1..Len(u) : u[i] = "."}
        ip == IF dots = {} THEN u ELSE SubSeq(u, 1, Min(dots) - 1)
        fp == IF dots = {} THEN <<>> ELSE SubSeq(u, Min(dots) + 1, Len(u))
    IN  IF Lower(u) = <<"nan">> THEN [ok |-> TRUE, x |-> Float("nan", neg, 0)]
        ELSE IF Lower(u) \in {<<"inf">>, <<"infinity">>} THEN [ok |-> TRUE, x |-> Float("inf", neg, 0)]
        ELSE IF Cardinality(dots) > 1 \/ ~IsDigits(ip) \/ ~IsDigits(fp) THEN NoFloat
        ELSE IF Len(ip) + Len(fp) = 0 \/ Len(fp) > 3 THEN NoFloat
        ELSE [ok |-> TRUE,
              x |-> Float("finite", neg, 1000 * DigitsVal(ip) + DigitsVal(fp \o [k \in 1..(3 - Len(fp)) |-> "0"]))]

\* float(t) for t without surrounding whitespace: a sign, then the numeral.
FloatOfSigned(t) ==
    FloatOfNumeral(Len(t) > 0 /\ t[1] = "-",
                   IF Len(t) > 0 /\ t[1] \in {"+", "-"} THEN Tail(t) ELSE t)

\* float(s); ok = FALSE is ValueError.
ParseFloat(s) == FloatOfSigned(Strip(s))

\* f"{x:.2f}": round to hundredths, ties to even (the ties of the model's
\* amounts are exact in binary).
FormatF2(x) ==
    LET q == x.milli \div 10
        r == x.milli % 10
        c == IF r > 5 \/ (r = 5 /\ q % 2 = 1) THEN q + 1 ELSE q
        sign == IF x.neg THEN <<"-">> ELSE <<>>
    IN  IF x.kind = "nan" THEN <<"nan">>
        ELSE IF x.kind = "inf" THEN sign \o <<"inf">>
        ELSE sign \o NatDigits(c \div 100) \o <<".">> \o ZeroPad(NatDigits(c % 100), 2)

\* ------------------------------------------------------ csv.DictReader --

\* row[key] for the dict DictReader builds from fieldnames and a record:
\* the last field of that name wins, a field the record is too short for is
\* None, and a name that is no field is a KeyError.
RowGet(fieldnames, row, key) ==
    LET at == {i \in 1..Len(fieldnames) : fieldnames[i] = key}
    IN  IF at = {} THEN [found |-> FALSE, none |-> FALSE, s |-> <<>>]
        ELSE IF Max(at) > Len(row) THEN [found |-> TRUE, none |-> TRUE, s |-> <<>>]
        ELSE [found |-> TRUE, none |-> FALSE, s |-> row[Max(at)]]

\* ------------------------------------------------------------- parsing --

ParsedTransaction(date, payee, amount, original_category, original_comment) ==
    [date |-> date, payee |-> payee, amount |-> amount,
     original_category |-> original_category, original_comment |-> original_comment]

\* f"Row {row_num}"
RowTag(row_num) == <<"Row ", ToString(row_num)>>

\* What the body of the loop does with one row: kind "txn" (appends txn),
\* "skip" (continue) or "raise".
RowTxn(t) == [kind |-> "txn", exc |-> "", msg |-> <<>>, txn |-> t]
NoTxn == ParsedTransaction(<<>>, <<>>, Float("nan", FALSE, 0), <<>>, <<>>)
RowRaise(cls, m) == [kind |-> "raise", exc |-> cls, msg |-> m, txn |-> NoTxn]

\* A row without an amount reported as an error instead of passed over:
\* C4_PassedOverRowsOmitted tells it from RowSkip.
RowMissingAmount == RowRaise("ValueError", <<"Row", ": Missing amount">>)

\* continue
RowSkip == [kind |-> "skip", exc |-> "", msg |-> <<>>, txn |-> NoTxn]

\* A ValueError that is raised again without the row number:
\* C3_RowErrorNamesRow tells it from RowValueError.
RowValueErrorAsIs(row_num, m) == RowRaise("ValueError", m)

\* except ValueError as e: the message gets the row number unless it has it.
RowValueError(row_num, m) ==
    IF ~Contains(m, RowTag(row_num))
    THEN RowRaise("ValueError", RowTag(row_num) \o <<": ">> \o m)
    ELSE RowRaise("ValueError", m)

\* except KeyError as e
RowKeyError(row_num, key) ==
    RowRaise("ValueError", RowTag(row_num) \o <<": Missing column '">> \o key \o <<"'">>)

\* None.strip(): not caught by the loop's except clauses.
RowAttributeError ==
    RowRaise("AttributeError", <<"'NoneType' object has no attribute 'strip'">>)

\* The first of dates that parsed; NoDate when none did.
FirstDate(dates) ==
    LET ok == {k \in 1..Len(dates) : dates[k].ok}
    IN  IF ok = {} THEN NoDate ELSE dates[Min(ok)]

\* date_obj of AceMoneyParser.parse: the first format that parses.
AceParseDate(date_str) ==
    FirstDate([k \in 1..Len(AceDateFormats) |-> strptime(date_str, AceDateFormats[k])])

MissingPayeeMsg(row_num) == RowTag(row_num) \o <<": Missing payee">>
BothAmountsMsg(row_num) == RowTag(row_num) \o <<": Both withdrawal and deposit have values">>

InvalidDateMsg(date_str) ==
    <<"Invalid date format '">> \o date_str \o
    <<"' (expected DD.MM.YYYY, DD-MM-YYYY, YYYY/MM/DD, or YYYY-MM-DD)">>

FloatErrorMsg(s) == <<"could not convert string to float: '">> \o s \o <<"'">>

\* The cells of a row that AceMoneyParser.parse reads.
AceCells(fieldnames, row) ==
    [date |-> RowGet(fieldnames, row, <<"date">>),
     payee |-> RowGet(fieldnames, row, <<"payee">>),
     withdrawal |-> RowGet(fieldnames, row, <<"withdrawal">>),
     deposit |-> RowGet(fieldnames, row, <<"deposit">>),
     category |-> RowGet(fieldnames, row, <<"category">>),
     comment |-> RowGet(fieldnames, row, <<"comment">>)]

\* The cell of c that float is applied to: withdrawal if it has a value,
\* else deposit.
AceAmountText(c) ==
    IF Strip(c.withdrawal.s) # <<>> THEN Strip(c.withdrawal.s) ELSE Strip(c.deposit.s)

\* The body of the loop of AceMoneyParser.parse for the row of cells c,
\* date_obj being what the date formats give and amount what float gives.
AceRowBody(row_num, c, date_obj, amount) ==
    IF ~c.date.found THEN RowKeyError(row_num, <<"date">>)
    ELSE IF c.date.none THEN RowAttributeError
    ELSE IF ~date_obj.ok THEN RowValueError(row_num, InvalidDateMsg(Strip(c.date.s)))
    ELSE IF ~c.payee.found THEN RowKeyError(row_num, <<"payee">>)
    ELSE IF c.payee.none THEN RowAttributeError
    ELSE IF Strip(c.payee.s) = <<>> THEN RowValueError(row_num, MissingPayeeMsg(row_num))
    ELSE IF ~c.withdrawal.found THEN RowKeyError(row_num, <<"withdrawal">>)
    ELSE IF c.withdrawal.none THEN RowAttributeError
    ELSE IF ~c.deposit.found THEN RowKeyError(row_num, <<"deposit">>)
    ELSE IF c.deposit.none THEN RowAttributeError
    ELSE IF Strip(c.withdrawal.s) # <<>> /\ Strip(c.deposit.s) # <<>>
    THEN RowValueError(row_num, BothAmountsMsg(row_num))
    ELSE IF Strip(c.withdrawal.s) = <<>> /\ Strip(c.deposit.s) = <<>> THEN RowSkip
    ELSE IF ~amount.ok THEN RowValueError(row_num, FloatErrorMsg(AceAmountText(c)))
    ELSE IF (c.category.found /\ c.category.none) \/ (c.comment.found /\ c.comment.none)
    THEN RowAttributeError
    ELSE RowTxn(ParsedTransaction(
             strftime(date_obj, FmtYMDdash),
             Strip(c.payee.s),
             IF Strip(c.withdrawal.s) # <<>> THEN Negate(amount.x) ELSE amount.x,
             Strip(c.category.s),
             Strip(c.comment.s)))

\* One pass of the loop of AceMoneyParser.parse.
AceRow(fieldnames, row, row_num) ==
    AceRowBody(row_num, AceCells(fieldnames, row),
               AceParseDate(Strip(RowGet(fieldnames, row, <<"date">>).s)),
               ParseFloat(AceAmountText(AceCells(fieldnames, row))))

\* The two replacements in the other order, which lose the decimal point:
\* C15_DanishDecimals tells it from DanishToDecimal.
CommaThenDots(s) == SelectSeq(s, LAMBDA c : c \notin {".", ","})

\* s.replace('.', '').replace(',', '.')
DanishToDecimal(s) ==
    LET kept == SelectSeq(s, LAMBDA c : c # ".")
    IN  [i \in 1..Len(kept) |-> IF kept[i] = "," THEN "." ELSE kept[i]]

\* str(e) of the ValueError of strptime(date_str, '%d.%m.%Y')
TimeDataMsg(date_str, date_obj) ==
    IF date_obj = NoDate
    THEN <<"time data '">> \o date_str \o <<"' does not match format '%d.%m.%Y'">>
    ELSE date_obj.why

\* The body of the loop of DanskeBankParser.parse for a row whose cells are
\* dato, tekst and am, date_obj being what strptime gives and amount what
\* float gives.
DanskeRowBody(row_num, dato, tekst, am, date_obj, amount) ==
    IF ~dato.found THEN RowKeyError(row_num, <<"Dato">>)
    ELSE IF dato.none THEN RowAttributeError
    ELSE IF ~date_obj.ok THEN RowValueError(row_num, TimeDataMsg(StripQuoted(dato.s), date_obj))
    ELSE IF ~tekst.found THEN RowKeyError(row_num, <<"Tekst">>)
    ELSE IF tekst.none THEN RowAttributeError
    ELSE IF StripQuoted(tekst.s) = <<>> THEN RowValueError(row_num, MissingPayeeMsg(row_num))
    ELSE IF am.none THEN RowAttributeError
    ELSE IF StripQuoted(am.s) = <<>> THEN RowSkip
    ELSE IF ~amount.ok
    THEN RowValueError(row_num, FloatErrorMsg(DanishToDecimal(StripQuoted(am.s))))
    ELSE RowTxn(ParsedTransaction(
             strftime(date_obj, FmtYMDdash), StripQuoted(tekst.s), amount.x, <<>>, <<>>))

\* One pass of the loop of DanskeBankParser.parse.
DanskeRow(fieldnames, amount_col, row, row_num) ==
    DanskeRowBody(row_num,
        RowGet(fieldnames, row, <<"Dato">>),
        RowGet(fieldnames, row, <<"Tekst">>),
        RowGet(fieldnames, row, amount_col),
        strptime(StripQuoted(RowGet(fieldnames, row, <<"Dato">>).s), FmtDMYdot),
        ParseFloat(DanishToDecimal(StripQuoted(RowGet(fieldnames, row, amount_col).s))))

\* The message of an empty file given for a file without records:
\* C14_LoopLeavesNoRecords tells it from NoTransactionsMsg.
NoRecordsAsEmptyFile == FileIsEmptyMsg

NoTransactionsMsg == <<"No transactions found in CSV file">>

\* One pass of the loop of the parser p.parser, p holding what the loop
\* does not change: parser, text, delim, fieldnames and amount_col.
LoopBody(p, row, row_num) ==
    IF p.parser = "acemoney" THEN AceRow(p.fieldnames, row, row_num)
    ELSE DanskeRow(p.fieldnames, p.amount_col, row, row_num)

\* for row_num, row in enumerate(reader, start=2), the reader a DictReader
\* at character i of p.text: blank records are passed over without a
\* number.  ParseRecord has r, what next(reader) gave, and ParseOutcome has
\* o, what the body of the loop did with it.
RECURSIVE ParseRows(_, _, _, _)
RECURSIVE ParseRecord(_, _, _, _)
RECURSIVE ParseOutcome(_, _, _, _, _)
ParseRows(p, i, row_num, acc) ==
    ParseRecord(p, row_num, acc, ReaderNext(p.text, i, p.delim))

\* The loop without the check that follows it, returning the empty list:
\* C5_NoTransactionsFound tells it from ParseRecord.
ParseRecordAllowingNone(p, row_num, acc, r) ==
    IF r.stop THEN Returns(acc)
    ELSE IF r.error THEN Raises("Error", CsvErrorMsg, <<>>)
    ELSE IF r.fields = <<>> THEN ParseRows(p, r.next, row_num, acc)
    ELSE ParseOutcome(p, r.next, row_num, acc, LoopBody(p, r.fields, row_num))

ParseRecord(p, row_num, acc, r) ==
    IF r.stop
    THEN (IF acc = <<>> THEN Raises("ValueError", NoTransactionsMsg, <<>>) ELSE Returns(acc))
    ELSE IF r.error THEN Raises("Error", CsvErrorMsg, <<>>)
    ELSE IF r.fields = <<>> THEN ParseRows(p, r.next, row_num, acc)
    ELSE ParseOutcome(p, r.next, row_num, acc, LoopBody(p, r.fields, row_num))

ParseOutcome(p, i, row_num, acc, o) ==
    IF o.kind = "raise" THEN Raises(o.exc, o.msg, <<>>)
    ELSE ParseRows(p, i, row_num + 1, IF o.kind = "txn" THEN Append(acc, o.txn) ELSE acc)

\* f"CSV validation failed: {'; '.join(errors)}"; validate returns at most
\* one error.
JoinErrors(errors) == <<"CSV validation failed: ">> \o Flatten(errors)

\* What the loop of AceMoneyParser.parse does not change: the fieldnames are
\* the normalized fields of lines[0].
AceLoop(text) ==
    [parser |-> "acemoney", text |-> text, delim |-> ",",
     fieldnames |-> NormalizeAll(ReaderNext(FirstLine(text), 1, ",").fields),
     amount_col |-> <<>>]

\* AceMoneyParser.parse past validation and decoding: next(header_reader),
\* next(reader) to pass over the header row, then the loop.
AceParseText(text) ==
    IF ReaderNext(FirstLine(text), 1, ",").error \/ ReaderNext(text, 1, ",").error
    THEN Raises("Error", CsvErrorMsg, <<>>)
    ELSE ParseRows(AceLoop(text), ReaderNext(text, 1, ",").next, 2, <<>>)

\* AceMoneyParser.parse
AceParse(b) ==
    IF AceValidate(b) # <<>> THEN Raises("ValueError", JoinErrors(AceValidate(b)), <<>>)
    ELSE AceParseText(Decode(b, "latin-1").text)

\* amount_col of DanskeBankParser.parse: the first field that starts with
\* "Bel"; <<>> when there is none.
AmountCol(fieldnames) ==
    LET bel == {k \in 1..Len(fieldnames) :
                   Len(StripQuoted(fieldnames[k])) > 0 /\ StripQuoted(fieldnames[k])[1] = "Bel"}
    IN  IF bel = {} THEN <<>> ELSE fieldnames[Min(bel)]

NoAmountColMsg == <<"Could not find amount column (expected 'Beloeb' or similar)">>

\* What the loop of DanskeBankParser.parse does not change: the fieldnames
\* are the first record, as DictReader reads it.
DanskeLoop(text) ==
    [parser |-> "danske_bank", text |-> text, delim |-> ";",
     fieldnames |-> ReaderNext(text, 1, ";").fields,
     amount_col |-> AmountCol(ReaderNext(text, 1, ";").fields)]

\* DanskeBankParser.parse past validation and decoding.
DanskeParseText(text) ==
    IF DanskeLoop(text).amount_col = <<>> THEN Raises("ValueError", NoAmountColMsg, <<>>)
    ELSE ParseRows(DanskeLoop(text), ReaderNext(text, 1, ";").next, 2, <<>>)

\* DanskeBankParser.parse
DanskeParse(b) ==
    IF DanskeValidate(b) # <<>> THEN Raises("ValueError", JoinErrors(DanskeValidate(b)), <<>>)
    ELSE DanskeParseText(DanskeDecode(b).text)

\* ----------------------------------------------------------- generator --

\* One field as csv.writer writes it (QUOTE_MINIMAL): quoted when it holds
\* the delimiter, the quote character or a character of the line
\* terminator, with every quote character doubled.
WriterField(f) ==
    IF \E i \in 1..Len(f) : f[i] \in {",", "\"", "\r", "\n"}
    THEN <<"\"">> \o Flatten([i \in 1..Len(f) |-> IF f[i] = "\"" THEN <<"\"", "\"">> ELSE <<f[i]>>])
         \o <<"\"">>
    ELSE f

RECURSIVE JoinFields(_, _)
JoinFields(fields, delim) ==
    IF Len(fields) = 0 THEN <<>>
    ELSE IF Len(fields) = 1 THEN fields[1]
    ELSE fields[1] \o <<delim>> \o JoinFields(Tail(fields), delim)

\* writer.writerow / writer.writeheader: the fields and the line terminator.
WriterRow(fields) ==
    JoinFields([i \in 1..Len(fields) |-> WriterField(fields[i])], ",") \o <<"\r", "\n">>

\* The row CSVGenerator.generate writes for txn, date_obj being what
\* strptime gives for txn['date']; ok = FALSE when that is ValueError.
GenerateRowOf(txn, date_obj) ==
    IF ~date_obj.ok THEN [ok |-> FALSE, row |-> <<>>]
    ELSE [ok |-> TRUE,
          row |-> WriterRow(<< <<>>,
                               strftime(date_obj, FmtDMYdot),
                               txn.payee,
                               txn.category,
                               <<>>,
                               IF LessThanZero(txn.amount) THEN FormatF2(Abs(txn.amount)) ELSE <<>>,
                               IF AtLeastZero(txn.amount) THEN FormatF2(txn.amount) ELSE <<>>,
                               <<>>,
                               txn.note >>)]

GenerateRow(txn) == GenerateRowOf(txn, strptime(txn.date, FmtYMDdash))

\* CSVGenerator.generate past the loop, rows being what the loop wrote and
\* bytes what csv_text.encode('latin-1') gives.
GenerateOf(rows, bytes) ==
    IF \E i \in 1..Len(rows) : ~rows[i].ok
    THEN Raises("ValueError", <<"time data does not match format '%Y-%m-%d'">>, <<>>)
    ELSE IF ~bytes.ok
    THEN Raises("UnicodeEncodeError", <<"'latin-1' codec can't encode character">>, <<>>)
    ELSE Returns(bytes.bytes)

\* csv_text = output.getvalue()
CsvText(rows) ==
    WriterRow(AceExpectedHeaders) \o Flatten([i \in 1..Len(rows) |-> rows[i].row])

\* CSVGenerator.generate
Generate(transactions) ==
    GenerateOf([i \in 1..Len(transactions) |-> GenerateRow(transactions[i])],
               EncodeLatin1(CsvText([i \in 1..Len(transactions) |-> GenerateRow(transactions[i])])))

\* The dicts the callers of generate build from parsed records.
ToDicts(txns) ==
    [i \in 1..Len(txns) |->
        [date |-> txns[i].date, payee |-> txns[i].payee, amount |-> txns[i].amount,
         category |-> <<>>, note |-> txns[i].original_comment]]

\* --------------------------------------------------------------- inputs --
\* The byte buffers the calls are made on: a header line, then data rows.
\* The rows before the last come from a few kinds; the last row differs from
\* a well-formed row in one cell, or is malformed as a whole.

MaxRows == 2

RECURSIVE SeqsOfLen(_, _)
SeqsOfLen(S, n) ==
    IF n = 0 THEN {<<>>}
    ELSE {Append(s, x) : s \in SeqsOfLen(S, n - 1), x \in S}

SeqsUpTo(S, n) == UNION {SeqsOfLen(S, k) : k \in 0..n}

Line(cells, delim) == JoinFields(cells, delim) \o <<"\n">>

\* date cells of AceMoney rows
AceDateTexts ==
    {
      <<"2", "1", ".", "0", "7", ".", "2", "0", "2", "3">>,
      <<"2", "9", ".", "0", "2", ".", "2", "0", "2", "4">>,
      <<"2", "0", "2", "4", "-", "0", "1", "-", "3", "1">>,
      <<"0", "1", "-", "0", "2", "-", "2", "0", "2", "4">>,
      <<"2", "0", "2", "4", "/", "0", "1", "/", "0", "2">>,
      <<"3", "1", ".", "0", "2", ".", "2", "0", "2", "3">>,
      <<"2", "9", ".", "0", "2", ".", "2", "0", "2", "3">>,
      <<"0", "1", ".", "0", "1", ".", "0", "9", "9", "9">>,
      <<"1", ".", "2", ".", "2", "0", "2", "4">>,
      <<"2", "1", ".", "0", "7", ".", "2", "3">>,
      <<"xx">>,
      <<>>,
      <<" ", "2", "1", ".", "0", "7", ".", "2", "0", "2", "3", " ">>
    }

\* payee cells of AceMoney rows
AcePayeeTexts ==
    {
      <<"P">>,
      <<>>,
      <<" ">>,
      <<" ", "P", " ">>,
      <<"\"", "P", ",", "Q", "\"">>,
      <<"L", "0xF8", "n">>,
      <<"\"", "x", "\"", "\"", "\"">>,
      <<"0xE2", "0x82", "0xAC">>,
      <<"\"", "P", "\r", "Q", "\"">>
    }

\* withdrawal and deposit cells of AceMoney rows
AceAmountPairs ==
    {
      <<<<"1", "6", "0", ".", "0">>, <<>>>>,
      <<<<>>, <<"2", "8", "5", ".", "6", "1">>>>,
      <<<<"1", "0", "0", ".", "0">>, <<"2", "0", "0", ".", "0">>>>,
      <<<<>>, <<>>>>,
      <<<<" ">>, <<>>>>,
      <<<<"abc">>, <<>>>>,
      <<<<>>, <<"1", ",", "5">>>>,
      <<<<"-", "5">>, <<>>>>,
      <<<<>>, <<"-", "5">>>>,
      <<<<"0">>, <<>>>>,
      <<<<>>, <<"0">>>>,
      <<<<"nan">>, <<>>>>,
      <<<<"0", ".", "1", "2", "5">>, <<>>>>,
      <<<<>>, <<"0", ".", "0", "0", "1">>>>,
      <<<<" ", "7", " ">>, <<>>>>,
      <<<<"Row ", "2">>, <<>>>>
    }

AceRowLine(date, payee, withdrawal, deposit) ==
    Line(<< <<>>, date, payee, <<>>, <<>>, withdrawal, deposit, <<>>, <<>> >>, ",")

AceGoodDate == <<"2", "1", ".", "0", "7", ".", "2", "0", "2", "3">>

AceGoodPayee == <<"P">>

AceGoodWithdrawal == <<"1", "6", "0", ".", "0">>

\* rows that are malformed as a whole: too short, a bare carriage return, blank, too long, other line ends, no amount and no payee, no amount and no date
AceOddRows ==
    {
      <<",", "2", "1", ".", "0", "7", ".", "2", "0", "2", "3", ",", "P", "\n">>,
      <<",", "2", "1", ".", "0", "7", ".", "2", "0", "2", "3", ",", "P", ",", ",", ",", "1", "6", "0", ".", "0", ",", "\n">>,
      <<",", "2", "1", ".", "0", "7", ".", "2", "0", "2", "3", ",", "P", "\r", "Q", ",", ",", ",", "1", "6", "0", ".", "0", ",", ",", ",", "\n">>,
      <<" ", "\n">>,
      <<",", "2", "1", ".", "0", "7", ".", "2", "0", "2", "3", ",", "P", ",", "cat", ",", ",", "1", "6", "0", ".", "0", ",", ",", ",", "note", ",", "more", "\n">>,
      <<",", "2", "1", ".", "0", "7", ".", "2", "0", "2", "3", ",", "P", ",", ",", ",", "1", "6", "0", ".", "0", ",", ",", ",", "\r", "\n">>,
      <<",", "2", "1", ".", "0", "7", ".", "2", "0", "2", "3", ",", "P", ",", ",", ",", "1", "6", "0", ".", "0", ",", ",", ",">>,
      <<",", "2", "1", ".", "0", "7", ".", "2", "0", "2", "3", ",", ",", ",", ",", ",", ",", ",", "\n">>,
      <<",", "xx", ",", "P", ",", ",", ",", ",", ",", ",", "\n">>
    }

AceLastRows ==
    {AceRowLine(d, AceGoodPayee, AceGoodWithdrawal, <<>>) : d \in AceDateTexts}
    \cup {AceRowLine(AceGoodDate, p, AceGoodWithdrawal, <<>>) : p \in AcePayeeTexts}
    \cup {AceRowLine(AceGoodDate, AceGoodPayee, a[1], a[2]) : a \in AceAmountPairs}
    \cup AceOddRows

\* a record, a row without an amount, a blank line
AceEarlierRows ==
    {
      <<",", "2", "0", ".", "0", "7", ".", "2", "0", "2", "3", ",", "Q", ",", ",", ",", ",", "5", ".", "0", "0", ",", ",", "\n">>,
      <<",", "2", "0", ".", "0", "7", ".", "2", "0", "2", "3", ",", "M", ",", ",", ",", ",", ",", ",", "\n">>,
      <<"\n">>
    }

AceHeaderLine == <<"transaction", ",", "date", ",", "payee", ",", "category", ",", "status", ",", "withdrawal", ",", "deposit", ",", "total", ",", "comment", "\n">>

\* Dato cells of Danske Bank rows
DanskeDateTexts ==
    {
      <<"2", "5", ".", "1", "1", ".", "2", "0", "2", "4">>,
      <<"\"", "2", "5", ".", "1", "1", ".", "2", "0", "2", "4", "\"">>,
      <<"2", "0", "2", "4", "-", "0", "1", "-", "0", "1">>,
      <<"1", ".", "1", ".", "2", "0", "2", "4">>,
      <<"3", "1", ".", "0", "2", ".", "2", "0", "2", "4">>,
      <<"0", "1", ".", "0", "1", ".", "0", "9", "9", "9">>,
      <<>>,
      <<"2", "5", "-", "1", "1", "-", "2", "0", "2", "4">>
    }

\* Tekst cells of Danske Bank rows
DanskePayeeTexts ==
    {
      <<"T">>,
      <<"\"", "T", "\"">>,
      <<>>,
      <<"\"", "\"">>,
      <<" ", "\"", " ", "\"", " ">>,
      <<"L", "0xC3", "0xB8", "n">>,
      <<"0xE2", "0x82", "0xAC">>,
      <<"a", "\"", "b", ",", "c">>,
      <<" ", "T", " ">>
    }

\* amount cells of Danske Bank rows
DanskeAmountTexts ==
    {
      <<"-", "4", "1", ",", "8", "0">>,
      <<"\"", "-", "4", "1", ",", "8", "0", "\"">>,
      <<"1", ".", "2", "3", "4", ",", "5", "6">>,
      <<>>,
      <<"\"", "\"">>,
      <<"1", ",", "2", ",", "3">>,
      <<"nan">>,
      <<"0", ",", "0", "0", "1">>,
      <<"+", "5">>,
      <<"-", "0", ",", "0", "0">>,
      <<"0", ",", "1", "2", "5">>,
      <<"abc">>,
      <<"5">>,
      <<"1", "2", "3", ".", "4", "5", "6", ",", "7", "8">>,
      <<"-", "1", ".", "2", "3", "4", ",", "5", "6">>,
      <<"4", "1", ".", "8", "0">>
    }

DanskeRowLine(date, payee, amount) ==
    Line(<<date, payee, amount, <<"9", "8", ",", "2", "9">>, <<"U">>, <<"N">> >>, ";")

DanskeGoodDate == <<"2", "5", ".", "1", "1", ".", "2", "0", "2", "4">>

DanskeGoodPayee == <<"T">>

DanskeGoodAmount == <<"-", "4", "1", ",", "8", "0">>

\* rows that are malformed as a whole: too short, a bare carriage return, blank, too long, quoted with other line ends, no amount and no payee, no amount and no date
DanskeOddRows ==
    {
      <<"2", "5", ".", "1", "1", ".", "2", "0", "2", "4", ";", "T", "\n">>,
      <<"2", "5", ".", "1", "1", ".", "2", "0", "2", "4", ";", "T", "\r", "Q", ";", "5", ";", "0", ";", "U", ";", "N", "\n">>,
      <<" ", "\n">>,
      <<"2", "5", ".", "1", "1", ".", "2", "0", "2", "4", ";", "T", ";", "5", ";", "0", ";", "U", ";", "N", ";", "more", "\n">>,
      <<"\"", "2", "5", ".", "1", "1", ".", "2", "0", "2", "4", "\"", ";", "\"", "T", "\"", ";", "\"", "5", "\"", ";", "\"", "0", "\"", ";", "\"", "U", "\"", ";", "\"", "N", "\"", "\r", "\n">>,
      <<"2", "5", ".", "1", "1", ".", "2", "0", "2", "4", ";", ";", ";", "0", ";", "U", ";", "N", "\n">>,
      <<"2", "0", "2", "4", "-", "0", "1", "-", "0", "1", ";", "T", ";", ";", "0", ";", "U", ";", "N", "\n">>
    }

DanskeLastRows ==
    {DanskeRowLine(d, DanskeGoodPayee, DanskeGoodAmount) : d \in DanskeDateTexts}
    \cup {DanskeRowLine(DanskeGoodDate, p, DanskeGoodAmount) : p \in DanskePayeeTexts}
    \cup {DanskeRowLine(DanskeGoodDate, DanskeGoodPayee, a) : a \in DanskeAmountTexts}
    \cup DanskeOddRows

\* a record, a row without an amount, a blank line
DanskeEarlierRows ==
    {
      <<"2", "4", ".", "1", "1", ".", "2", "0", "2", "4", ";", "Q", ";", "5", ",", "0", "0", ";", "0", ";", "U", ";", "N", "\n">>,
      <<"2", "4", ".", "1", "1", ".", "2", "0", "2", "4", ";", "M", ";", ";", "0", ";", "U", ";", "N", "\n">>,
      <<"\n">>
    }

DanskeHeaderLine == <<"\"", "Dato", "\"", ";", "\"", "Tekst", "\"", ";", "\"", "Bel", "0xC3", "0xB8", "b", "\"", ";", "\"", "Saldo", "\"", ";", "\"", "Status", "\"", ";", "\"", "Afstemt", "\"", "\n">>

\* buffers that probe detection and validation: blank, the headers in their variants, other headers
HeaderProbes ==
    {
      <<>>,
      <<" ">>,
      <<"\n">>,
      <<" ", "\r", "\n", "\t">>,
      <<"transaction", ",", "date", ",", "payee", ",", "category", ",", "status", ",", "withdrawal", ",", "deposit", ",", "total", ",", "comment">>,
      <<"transaction", ",", "date", ",", "payee", ",", "category", ",", "status", ",", "withdrawal", ",", "deposit", ",", "total", ",", "comment", "\r", "\n">>,
      <<"transaction", ",", "date", ",", "payee", ",", "category", ",", "status", ",", "withdrawal", ",", "deposit", ",", "total", ",", "comment", "\r">>,
      <<"Num", ",", " ", "Date", " ", ",", "payee", ",", "category", ",", "S", ",", "withdrawal", ",", "deposit", ",", "total", ",", "comment", "\n">>,
      <<"\"", "transaction", "\"", ",", "\"", "date", "\"", ",", "\"", "payee", "\"", ",", "\"", "category", "\"", ",", "\"", "status", "\"", ",", "\"", "withdrawal", "\"", ",", "\"", "deposit", "\"", ",", "\"", "total", "\"", ",", "\"", "comment", "\"", "\n">>,
      <<"transaction", ";", "date", ";", "payee", ";", "category", ";", "status", ";", "withdrawal", ";", "deposit", ";", "total", ";", "comment", "\n">>,
      <<"transaction", ",", "date", ",", "payee", ",", "category", ",", "status", ",", "withdrawal", ",", "deposit", ",", "total", "\n">>,
      <<"\n", "transaction", ",", "date", ",", "payee", ",", "category", ",", "status", ",", "withdrawal", ",", "deposit", ",", "total", ",", "comment", "\n">>,
      <<"Transaction", ",", "Date", ",", "payee", ",", "category", ",", "status", ",", "withdrawal", ",", "deposit", ",", "total", ",", "comment", "\n">>,
      <<"transaction", ",", " ", "\"", "date", "\"", " ", ",", "payee", ",", "category", ",", "status", ",", "withdrawal", ",", "deposit", ",", "total", ",", "comment", "\n">>,
      <<"Dato", ";", "Tekst", ";", "Saldo", ";", "Status", ";", "transaction", ",", "date", ",", "payee", ",", "category", ",", "status", ",", "withdrawal", ",", "deposit", ",", "total", ",", "comment", "\n">>,
      <<"transaction", ",", "date", ",", "payee", ",", "category", ",", "status", ",", "withdrawal", ",", "deposit", ",", "total", ",", "comment", ";", "Dato", ";", "Tekst", ";", "Saldo", ";", "Status", "\n">>,
      <<"wrong", ",", "format", ",", "here", "\n">>,
      <<"wrong", ";", "format", ";", "here", "\n">>,
      <<"x", "\n">>,
      <<"0xF8", "\n">>,
      <<"Dato", ";", "Tekst", ";", "Bel", "0xC3", "0xB8", "b", ";", "Saldo", ";", "Status", ";", "Afstemt", "\n">>,
      <<"Dato", ";", "Tekst", ";", "Bel", "0xF8", "b", ";", "Saldo", ";", "Status", ";", "Afstemt", "\n">>,
      <<"Dato", ";", "Tekst", ";", "Bel", "0xC3", "0xB8", "b", ";", "Saldo", ";", "Status", ";", "Afstemt", "\r", "\n">>,
      <<"Dato", ";", "Tekst", ";", "Bel", "0xC3", "0xB8", "b", ";", "Saldo", ";", "Status", ";", "Afstemt", "\r">>,
      <<"Dato", ";", "Tekst", ";", "Saldo", ";", "Status", "\n">>,
      <<"Status", ";", "Saldo", ";", "Tekst", ";", "Dato", ";", "x", ",", "y", "\n">>,
      <<"dato", ";", "tekst", ";", "bel", "0xC3", "0xB8", "b", ";", "saldo", ";", "status", ";", "afstemt", "\n">>,
      <<"\"", " ", "Dato", " ", "\"", ";", "Tekst", ";", "Bel", "0xC3", "0xB8", "b", ";", "Saldo", ";", "Status", ";", "Afstemt", "\n">>,
      <<" ", "Dato", " ", ";", "Tekst", ";", " ", "\"", "Bel", "0xC3", "0xB8", "b", "\"", " ", ";", "Saldo", ";", "Status", ";", "Afstemt", "\n">>,
      <<"Dato", ";", "Tekst", ";", "Bel", "0xC3", "0xB8", "b", ";", "Saldo", ";", "Status", ";", "Dato", "\n">>,
      <<"Dato", ",", "Tekst", ",", "Bel", "0xC3", "0xB8", "b", ",", "Saldo", ",", "Status", ",", "Afstemt", "\n">>,
      <<"\n", "Dato", ";", "Tekst", ";", "Bel", "0xC3", "0xB8", "b", ";", "Saldo", ";", "Status", ";", "Afstemt", "\n">>
    }

\* what follows a probed header: nothing, or one well-formed row of either format
ProbeRows ==
    {
      <<>>,
      <<",", "2", "1", ".", "0", "7", ".", "2", "0", "2", "3", ",", "P", ",", ",", ",", "1", "6", "0", ".", "0", ",", ",", ",", "\n">>,
      <<"2", "5", ".", "1", "1", ".", "2", "0", "2", "4", ";", "T", ";", "-", "4", "1", ",", "8", "0", ";", "0", ";", "U", ";", "N", "\n">>,
      <<",", "2", "1", ".", "0", "7", ".", "2", "0", "2", "3", ",", "P", ",", ",", ",", "1", "6", "0", ".", "0", ",", ",", ",", "\r">>,
      <<"2", "5", ".", "1", "1", ".", "2", "0", "2", "4", ";", "T", ";", "-", "4", "1", ",", "8", "0", ";", "0", ";", "U", ";", "N", "\r">>
    }

FilesOf(header, earlier, last) ==
    {header \o Flatten(e) \o l : e \in SeqsUpTo(earlier, MaxRows - 1), l \in last}
    \cup {header \o Flatten(e) : e \in SeqsUpTo(earlier, MaxRows)}

Files ==
    FilesOf(AceHeaderLine, AceEarlierRows, AceLastRows)
    \cup FilesOf(DanskeHeaderLine, DanskeEarlierRows, DanskeLastRows)
    \cup {h \o r : h \in HeaderProbes, r \in ProbeRows}

\* ---------------------------------------------------------- the calls --

Parsers == {"acemoney", "danske_bank"}

NotCalled(v) == Raises("<not called>", <<>>, v)
Called(r) == r.exc # "<not called>"

\* Two callers, as two request threads.
Callers == {1, 2}

\* The frame of a caller that is in no call.  A frame in a call holds the
\* call's arguments (self as parser, file_content as input) and the locals
\* of parse: the position i of its reader, row_num and transactions.
Idle ==
    [op |-> "idle", parser |-> "", input |-> <<>>, pc |-> "idle", i |-> 0, row_num |-> 0,
     transactions |-> <<>>, result |-> NotCalled(<<>>)]

\* The rows of the table categories after the import, by id: a parent, its
\* child and another parent, none of them used yet.
ImportedCategories ==
    (1 :> [full_path |-> <<"Food">>, usage_count |-> 0])
    @@ (2 :> [full_path |-> <<"Food", ":", "Sub">>, usage_count |-> 0])
    @@ (3 :> [full_path |-> <<"Other">>, usage_count |-> 0])

\* The database after init_db and the import of the categories: no batches,
\* no transactions.  batch_seq and txn_seq are the last ids given out
\* (AUTOINCREMENT never gives one twice).
EmptyDb ==
    [categories |-> ImportedCategories, batches |-> <<>>, transactions |-> <<>>,
     batch_seq |-> 0, txn_seq |-> 0]

\* No request served yet.
NoRequest ==
    [op |-> "none", user |-> 0, batch_id |-> 0, transaction_ids |-> <<>>, code |-> 0,
     before |-> EmptyDb]

\* No update_transaction in progress, no websocket connected, no broadcast
\* in progress.
NewManager == [active_connections |-> <<>>, batch_subscriptions |-> <<>>]

NoBroadcast ==
    [pc |-> "none", batch_id |-> 0, exclude |-> 0, websocket |-> 0, used |-> 0, last |-> {},
     todo |-> {}, detached |-> FALSE, sent |-> {}, dead_connections |-> {}, at_start |-> {}]

NothingElse ==
    /\ threads = <<>>
    /\ manager = NewManager
    /\ endpoints = <<>>
    /\ broadcast = NoBroadcast

Init ==
    /\ file_content \in Files
    /\ libcPadsYear \in BOOLEAN
    /\ detected = NotCalled("")
    /\ factory = NotCalled("")
    /\ validated = [by |-> "", errors |-> <<>>]
    /\ parsed = [by |-> "", result |-> NotCalled(<<>>)]
    /\ generated = NotCalled(<<>>)
    /\ reparsed = NotCalled(<<>>)
    /\ frames = [c \in Callers |-> Idle]
    /\ database = EmptyDb
    /\ request = NoRequest
    /\ NothingElse

\* detect_csv_format(file_content)
Detect ==
    /\ ~Called(detected)
    /\ detected' = detect_csv_format(file_content)
    /\ UNCHANGED <<threads, manager, endpoints, broadcast, database, request, frames, file_content, libcPadsYear, factory, validated, parsed, generated, reparsed>>

\* get_parser(file_content)
GetParser ==
    /\ Called(detected)
    /\ ~Called(factory)
    /\ factory' = get_parser(file_content)
    /\ UNCHANGED <<threads, manager, endpoints, broadcast, database, request, frames, file_content, libcPadsYear, detected, validated, parsed, generated, reparsed>>

\* AceMoneyParser().validate(file_content) or DanskeBankParser().validate(file_content)
Validate(p) ==
    /\ Called(factory)
    /\ validated.by = ""
    /\ validated' = [by |-> p,
                     errors |-> IF p = "acemoney" THEN AceValidate(file_content)
                                ELSE DanskeValidate(file_content)]
    /\ UNCHANGED <<threads, manager, endpoints, broadcast, database, request, frames, file_content, libcPadsYear, detected, factory, parsed, generated, reparsed>>

\* parse(file_content) of the parser that validated it
Parse(p) ==
    /\ validated.by = p
    /\ parsed.by = ""
    /\ parsed' = [by |-> p,
                  result |-> IF p = "acemoney" THEN AceParse(file_content)
                             ELSE DanskeParse(file_content)]
    /\ UNCHANGED <<threads, manager, endpoints, broadcast, database, request, frames, file_content, libcPadsYear, detected, factory, validated, generated, reparsed>>

\* CSVGenerator().generate(...) on the records parse returned
GenerateCall ==
    /\ parsed.by # ""
    /\ parsed.result.exc = ""
    /\ ~Called(generated)
    /\ generated' = Generate(ToDicts(parsed.result.value))
    /\ UNCHANGED <<threads, manager, endpoints, broadcast, database, request, frames, file_content, libcPadsYear, detected, factory, validated, parsed, reparsed>>

\* AceMoneyParser().parse(...) on the generated bytes
Reparse ==
    /\ Called(generated)
    /\ generated.exc = ""
    /\ ~Called(reparsed)
    /\ reparsed' = AceParse(generated.value)
    /\ UNCHANGED <<threads, manager, endpoints, broadcast, database, request, frames, file_content, libcPadsYear, detected, factory, validated, parsed, generated>>

Next ==
    \/ Detect
    \/ GetParser
    \/ \E p \in Parsers : Validate(p)
    \/ \E p \in Parsers : Parse(p)
    \/ GenerateCall
    \/ Reparse

Spec == Init /\ [][Next]_vars

\* ------------------------------------------------------------- the rows --
\* What the loop of a parser's parse on b runs over, for the properties.

\* The loop's parameters.
LoopOf(parser, b) ==
    IF parser = "acemoney" THEN AceLoop(Decode(b, "latin-1").text)
    ELSE DanskeLoop(DanskeDecode(b).text)

\* parse(b) reaches its loop: validation passes and, for Danske Bank, the
\* amount column is found.
ReachesLoop(parser, b) ==
    IF parser = "acemoney" THEN AceValidate(b) = <<>>
    ELSE DanskeValidate(b) = <<>> /\ LoopOf(parser, b).amount_col # <<>>

\* The rows the loop enumerates from character i on: the records that are
\* not blank, up to the end of the text or to the record the reader fails
\* on (error).
RECURSIVE DataRows(_, _, _)
DataRows(p, i, acc) ==
    LET r == ReaderNext(p.text, i, p.delim)
    IN  IF r.stop \/ r.error THEN [rows |-> acc, error |-> r.error]
        ELSE DataRows(p, r.next, IF r.fields = <<>> THEN acc ELSE Append(acc, r.fields))

\* The records the loop of p runs over: those after the header record.
RecordsIn(p) == DataRows(p, ReaderNext(p.text, 1, p.delim).next, <<>>)

\* The records of b after the header record.
RecordsOf(parser, b) == RecordsIn(LoopOf(parser, b))

\* The data rows of b.
RowsOf(parser, b) == RecordsOf(parser, b).rows

\* What the body of the loop does with each data row, the k-th of them
\* being row k + 1.
OutcomesIn(p, rows) == [k \in 1..Len(rows) |-> LoopBody(p, rows[k], k + 1)]

OutcomesOf(parser, b) == OutcomesIn(LoopOf(parser, b), RowsOf(parser, b))

\* The numbers of the data rows that yield a record, in order.
Emitting(out) == SelectSeq([k \in 1..Len(out) |-> k], LAMBDA k : out[k].kind = "txn")

\* The cell of a row as the parser trims it; <<>> for a cell that is absent.
CellText(p, row, key) ==
    IF p.parser = "acemoney" THEN Strip(RowGet(p.fieldnames, row, key).s)
    ELSE StripQuoted(RowGet(p.fieldnames, row, key).s)

\* The cell is there: its column is a field and the row reaches it.
HasCell(p, row, key) ==
    RowGet(p.fieldnames, row, key).found /\ ~RowGet(p.fieldnames, row, key).none

\* The columns that carry the amount, the date and the payee.
AmountKeys(p) ==
    IF p.parser = "acemoney" THEN {<<"withdrawal">>, <<"deposit">>} ELSE {p.amount_col}
DateKey(p) == IF p.parser = "acemoney" THEN <<"date">> ELSE <<"Dato">>
PayeeKey(p) == IF p.parser = "acemoney" THEN <<"payee">> ELSE <<"Tekst">>

\* The row has its amount cells and all of them are empty.
Amountless(p, row) ==
    \A key \in AmountKeys(p) : HasCell(p, row, key) /\ CellText(p, row, key) = <<>>

\* The date the parser reads in the row's date cell.
RowDate(p, row) ==
    IF p.parser = "acemoney" THEN AceParseDate(CellText(p, row, DateKey(p)))
    ELSE strptime(CellText(p, row, DateKey(p)), FmtDMYdot)

\* The row has a date that parses, a payee and no amount.
PassedOver(p, row) ==
    /\ Amountless(p, row)
    /\ HasCell(p, row, DateKey(p)) /\ RowDate(p, row).ok
    /\ HasCell(p, row, PayeeKey(p)) /\ CellText(p, row, PayeeKey(p)) # <<>>

\* s is made of whitespace only (or of nothing).
Blank(s) == \A i \in 1..Len(s) : s[i] \in Whitespace

\* parse was called and its loop was reached.
InLoop == parsed.by # "" /\ ReachesLoop(parsed.by, file_content)

\* ----------------------------------------------------------- properties --

\* C1: for every buffer that is not empty, detect_csv_format returns
\* 'danske_bank' when the first line holds a semicolon and its headers match
\* the Danske Bank contract, returns 'acemoney' when the first line holds a
\* comma and its normalized headers are the nine AceMoney headers, and raises
\* the ValueError 'Could not detect CSV format' for every other buffer.
C1_DetectionDecides ==
    Called(detected) /\ ~Blank(file_content) =>
        detected =
            IF \E k \in 1..Len(DanskeEncodings) :
                   DanskeDetectTry(file_content, DanskeEncodings[k]) = "match"
            THEN Returns("danske_bank")
            ELSE IF AceDetectTry(file_content) = "match" THEN Returns("acemoney")
            ELSE Raises("ValueError", CouldNotDetectMsg, "")

\* C2: on a zero-length or whitespace-only buffer detect_csv_format raises
\* the ValueError 'File is empty', never 'Could not detect CSV format', and
\* get_parser raises the same error.
C2_EmptyInput ==
    Blank(file_content) =>
        /\ Called(detected) => detected = Raises("ValueError", FileIsEmptyMsg, "")
        /\ Called(factory) => factory = Raises("ValueError", FileIsEmptyMsg, "")

\* C2 at work: both calls were made on a buffer of whitespace.
C2_Witness ==
    /\ Len(file_content) > 0
    /\ Blank(file_content)
    /\ detected = Raises("ValueError", FileIsEmptyMsg, "")
    /\ factory = Raises("ValueError", FileIsEmptyMsg, "")

\* C3: when the first data row that fails conversion with a ValueError
\* (unparseable date, empty payee, both amounts populated, malformed amount
\* text) is the k-th data row, parse raises a ValueError whose message holds
\* "Row k+1" (the header being row 1) and returns no record, none of the
\* rows before it either.
C3_RowErrorNamesRow ==
    InLoop =>
        LET out == OutcomesOf(parsed.by, file_content)
            failing == {k \in 1..Len(out) : out[k].kind = "raise"}
        IN  failing # {} /\ out[Min(failing)].exc = "ValueError" =>
                /\ parsed.result.exc = "ValueError"
                /\ Contains(parsed.result.msg, <<"Row ", ToString(Min(failing) + 1)>>)
                /\ parsed.result.value = <<>>

\* C3 at work: the second data row fails after a first that yields a record,
\* and parse raises the error of row 3.
C3_Witness ==
    /\ InLoop
    /\ LET out == OutcomesOf(parsed.by, file_content)
       IN  /\ Len(out) >= 2
           /\ out[1].kind = "txn"
           /\ out[2].kind = "raise"
           /\ out[2].exc = "ValueError"
    /\ parsed.result.exc = "ValueError"
    /\ Contains(parsed.result.msg, <<"Row ", "3">>)
    /\ parsed.result.value = <<>>

MentionsMissingAmount(msg) == \E i \in 1..Len(msg) : msg[i] = ": Missing amount"

C6_PayeeNeverBlank ==
    InLoop =>
        LET p == LoopOf(parsed.by, file_content)
            rows == RecordsIn(p).rows
        IN  /\ parsed.result.exc = "" =>
                \A j \in 1..Len(parsed.result.value) : ~Blank(parsed.result.value[j].payee)
            /\ (\E k \in 1..Len(rows) :
                    HasCell(p, rows[k], PayeeKey(p)) /\ CellText(p, rows[k], PayeeKey(p)) = <<>>)
               => parsed.result.exc # ""

\* The sign of an amount text: it starts with a minus.
MinusText(s) == Len(s) > 0 /\ s[1] = "-"

\* C7: of the records parse returns, the one of an AceMoney row with only
\* the withdrawal cell populated has an amount below zero, the one of an
\* AceMoney row with only the deposit cell populated an amount above zero,
\* and the one of a Danske Bank row an amount of the sign of its amount text.
C7_SignConvention ==
    InLoop /\ parsed.result.exc = "" =>
        LET p == LoopOf(parsed.by, file_content)
            rows == RecordsIn(p).rows
            from == Emitting(OutcomesIn(p, rows))
        IN  \A j \in 1..Len(parsed.result.value) :
                LET row == rows[from[j]]
                    amount == parsed.result.value[j].amount
                IN  IF parsed.by = "acemoney"
                    THEN /\ CellText(p, row, <<"deposit">>) = <<>> => LessThanZero(amount)
                         /\ CellText(p, row, <<"withdrawal">>) = <<>> => GreaterThanZero(amount)
                    ELSE amount.neg = MinusText(CellText(p, row, p.amount_col))

\* s has the form YYYY-MM-DD and is a date of the calendar.
IsIsoDate(s) ==
    /\ Len(s) = 10
    /\ s[5] = "-" /\ s[8] = "-"
    /\ strptime(s, FmtYMDdash).ok

\* C8: every record parse returns has a date of the form YYYY-MM-DD that is
\* a date of the calendar and is the date of its source row, read in the
\* first of the parser's formats that parses it.
C8_IsoDate ==
    InLoop /\ parsed.result.exc = "" =>
        LET p == LoopOf(parsed.by, file_content)
            rows == RecordsIn(p).rows
            from == Emitting(OutcomesIn(p, rows))
        IN  \A j \in 1..Len(parsed.result.value) :
                /\ IsIsoDate(parsed.result.value[j].date)
                /\ strptime(parsed.result.value[j].date, FmtYMDdash) = RowDate(p, rows[from[j]])

\* The date text is day-first: DD.MM.YYYY, or DD-MM-YYYY for AceMoney.
DayFirst(p, date_str) ==
    \/ strptime(date_str, FmtDMYdot).ok
    \/ p.parser = "acemoney" /\ strptime(date_str, FmtDMYdash).ok

\* C9: parse raises a ValueError at a data row whose date is not day-first
\* (DD.MM.YYYY or DD-MM-YYYY for AceMoney, DD.MM.YYYY for Danske Bank), an
\* ISO date such as 2024-01-31 among them: no such row is passed or yields a
\* record.
C9_IsoRejected ==
    InLoop =>
        LET p == LoopOf(parsed.by, file_content)
            rows == RecordsIn(p).rows
            out == OutcomesIn(p, rows)
        IN  \A k \in 1..Len(rows) :
                HasCell(p, rows[k], DateKey(p)) /\ ~DayFirst(p, CellText(p, rows[k], DateKey(p)))
                => out[k].kind = "raise" /\ out[k].exc = "ValueError" /\ parsed.result.exc # ""

\* x and y differ by at most 0.01.
Within001(x, y) ==
    /\ x.kind = "finite" /\ y.kind = "finite"
    /\ LET a == IF x.neg THEN 0 - x.milli ELSE x.milli
           b == IF y.neg THEN 0 - y.milli ELSE y.milli
       IN  a - b \in -10..10

\* C10: for the records R parse returns, generate succeeds on R, and
\* AceMoneyParser.parse succeeds on the bytes generated and returns as many
\* records in the same order, each with the date and the payee of its record
\* in R and an amount within 0.01 of it.
C10_RoundTrip ==
    /\ Called(generated) => generated.exc = ""
    /\ Called(reparsed) =>
        /\ reparsed.exc = ""
        /\ Len(reparsed.value) = Len(parsed.result.value)
        /\ \A j \in 1..Len(reparsed.value) :
               j <= Len(parsed.result.value) =>
                   /\ reparsed.value[j].date = parsed.result.value[j].date
                   /\ reparsed.value[j].payee = parsed.result.value[j].payee
                   /\ Within001(reparsed.value[j].amount, parsed.result.value[j].amount)

\* The records parse returned are well-formed: each has a date of the form
\* YYYY-MM-DD that is a date of the calendar and an amount that is a number.
WellFormed(records) ==
    \A j \in 1..Len(records) :
        IsIsoDate(records[j].date) /\ records[j].amount.kind = "finite"

\* The header row of the AceMoney format as generate writes it.
AceHeaderRow == JoinFields(AceExpectedHeaders, ",") \o <<"\r", "\n">>

\* b starts with prefix.
StartsWith(b, prefix) == Len(b) >= Len(prefix) /\ SubSeq(b, 1, Len(prefix)) = prefix

\* C11: on every list of well-formed records, whichever parser returned
\* them, generate succeeds and returns bytes that start with the header row
\* of the AceMoney format.
C11_GenerateSucceeds ==
    Called(generated) /\ WellFormed(parsed.result.value) =>
        /\ generated.exc = ""
        /\ StartsWith(generated.value, AceHeaderRow)

\* The data rows of the bytes generate returned, as a csv reader reads them.
GeneratedRows ==
    RecordsIn([text |-> Decode(generated.value, "latin-1").text, delim |-> ","]).rows

\* C12: in the row generate writes for a record, exactly one of the
\* withdrawal and deposit columns is populated: for an amount below zero the
\* withdrawal column holds its absolute value formatted to 2 decimal places
\* and the deposit column is blank, for an amount of zero or above the
\* deposit column holds the value formatted to 2 decimal places and the
\* withdrawal column is blank.
C12_OneAmountColumn ==
    Called(generated) /\ generated.exc = "" =>
        /\ Len(GeneratedRows) = Len(parsed.result.value)
        /\ \A j \in 1..Len(parsed.result.value) :
               LET amount == parsed.result.value[j].amount
                   withdrawal == GeneratedRows[j][6]
                   deposit == GeneratedRows[j][7]
               IN  /\ (withdrawal = <<>>) # (deposit = <<>>)
                   /\ LessThanZero(amount) =>
                          withdrawal = FormatF2(Abs(amount)) /\ deposit = <<>>
                   /\ AtLeastZero(amount) =>
                          deposit = FormatF2(amount) /\ withdrawal = <<>>

\* C13: on the same bytes get_parser returns an AceMoneyParser exactly when
\* detect_csv_format returns 'acemoney' and a DanskeBankParser exactly when
\* it returns 'danske_bank', and when detect_csv_format raises, get_parser
\* raises the same error with the same message.
C13_FactoryFollowsDetection ==
    Called(detected) /\ Called(factory) =>
        /\ factory = Returns("AceMoneyParser") <=> detected = Returns("acemoney")
        /\ factory = Returns("DanskeBankParser") <=> detected = Returns("danske_bank")
        /\ detected.exc # "" => factory = detected

\* C13 at work: detection returned 'danske_bank' and the factory a
\* DanskeBankParser.
C13_Witness ==
    /\ detected = Returns("danske_bank")
    /\ factory = Returns("DanskeBankParser")

\* The parser's validate finds no error in b: the header passes validation.
PassesValidation(parser, b) ==
    IF parser = "acemoney" THEN AceValidate(b) = <<>> ELSE DanskeValidate(b) = <<>>

\* No record of b survives: the csv reader reads b to its end and there is
\* no data row, or the loop passes over every data row.
NoneSurvive(parser, b) ==
    LET p == LoopOf(parser, b)
        records == RecordsIn(p)
        rows == records.rows
        out == OutcomesIn(p, rows)
    IN  /\ ~records.error
        /\ rows = <<>> \/ (ReachesLoop(parser, b) /\ \A k \in 1..Len(rows) : out[k].kind = "skip")

\* The result of parse is the error 'No transactions found', which does
\* not say 'File is empty'.
IsNoTransactionsError(result) ==
    /\ result.exc = "ValueError"
    /\ result.msg = <<"No transactions found in CSV file">>
    /\ ~Contains(result.msg, FileIsEmptyMsg)
    /\ result.value = <<>>

Unsigned(t) == IF MinusText(t) THEN Tail(t) ELSE t

\* t is a number in Danish format: an optional minus, digits that '.' may
\* group in thousands, and optionally a decimal comma with one to three
\* digits after it.
IsDanishNumeral(t) ==
    LET u == Unsigned(t)
        commas == {i \in 1..Len(u) : u[i] = ","}
        whole == IF commas = {} THEN u ELSE SubSeq(u, 1, Min(commas) - 1)
        decimals == IF commas = {} THEN <<>> ELSE SubSeq(u, Min(commas) + 1, Len(u))
    IN  /\ Cardinality(commas) <= 1
        /\ \A i \in 1..Len(whole) : whole[i] \in Digits \cup {"."}
        /\ \E i \in 1..Len(whole) : whole[i] \in Digits
        /\ IsDigits(decimals)
        /\ commas # {} => Len(decimals) \in 1..3

\* The thousandths in the magnitude of the Danish numeral t: the digits
\* before the comma, the separators left out, and those after it.
DanishMilli(t) ==
    LET u == Unsigned(t)
        commas == {i \in 1..Len(u) : u[i] = ","}
        whole == IF commas = {} THEN u ELSE SubSeq(u, 1, Min(commas) - 1)
        decimals == IF commas = {} THEN <<>> ELSE SubSeq(u, Min(commas) + 1, Len(u))
    IN  1000 * DigitsVal(SelectSeq(whole, LAMBDA c : c \in Digits))
        + DigitsVal(decimals \o [k \in 1..(3 - Len(decimals)) |-> "0"])

\* C15: a Danske Bank data row with a date that parses, a payee and an
\* amount text in Danish format yields a record whose amount is the number
\* the text denotes with every '.' left out and the comma as decimal point,
\* under the sign of the text ('1.234,56' gives 1234.56, '-41,80' gives
\* -41.80, '123.456,78' gives 123456.78), and that is the amount of the
\* record parse returns for the row.
C15_DanishDecimals ==
    InLoop /\ parsed.by = "danske_bank" =>
        LET p == LoopOf(parsed.by, file_content)
            rows == RecordsIn(p).rows
            out == OutcomesIn(p, rows)
            from == Emitting(out)
            text(k) == CellText(p, rows[k], p.amount_col)
            number(k) == Float("finite", MinusText(text(k)), DanishMilli(text(k)))
        IN  /\ \A k \in 1..Len(rows) :
                   /\ HasCell(p, rows[k], DateKey(p)) /\ RowDate(p, rows[k]).ok
                   /\ HasCell(p, rows[k], PayeeKey(p)) /\ CellText(p, rows[k], PayeeKey(p)) # <<>>
                   /\ HasCell(p, rows[k], p.amount_col) /\ IsDanishNumeral(text(k))
                   => out[k].kind = "txn" /\ out[k].txn.amount = number(k)
            /\ parsed.result.exc = "" =>
                   \A j \in 1..Len(parsed.result.value) :
                       IsDanishNumeral(text(from[j])) =>
                           parsed.result.value[j].amount = number(from[j])

\* C15 at work: parse returned the record of a row whose amount text is
\* '1.234,56', with the amount 1234.56.
C15_Witness ==
    /\ InLoop /\ parsed.by = "danske_bank"
    /\ parsed.result.exc = ""
    /\ LET p == LoopOf(parsed.by, file_content)
           rows == RecordsIn(p).rows
       IN  /\ Len(rows) = 1
           /\ CellText(p, rows[1], p.amount_col) = <<"1", ".", "2", "3", "4", ",", "5", "6">>
    /\ Len(parsed.result.value) = 1
    /\ parsed.result.value[1].amount = Float("finite", FALSE, 1234560)

\* The header tokens of b for a format: the fields of the first record of
\* the text, read with the format's delimiter; <<>> when there is none.
HeaderTokens(parser, b) ==
    LET text == IF parser = "acemoney" THEN Decode(b, "latin-1").text ELSE DanskeDecode(b).text
        delim == IF parser = "acemoney" THEN "," ELSE ";"
        r == ReaderNext(text, 1, delim)
    IN  IF Blank(b) \/ ~InList(delim, FirstLine(text)) \/ r.stop \/ r.error THEN <<>>
        ELSE r.fields

\* The headers a format expects.
ExpectedHeaders(parser) ==
    IF parser = "acemoney" THEN AceExpectedHeaders ELSE DanskeExpectedHeaders

\* Trimmed of whitespace and of surrounding quote characters and
\* case-folded, the header tokens of b are the format's expected headers.
FoldedHeadersMatch(parser, b) ==
    LET tokens == HeaderTokens(parser, b)
        expected == ExpectedHeaders(parser)
    IN  /\ Len(tokens) = Len(expected)
        /\ \A i \in 1..Len(expected) : Lower(StripQuoted(tokens[i])) = Lower(expected[i])

\* Trimmed of whitespace and case-folded, the header tokens of b are the
\* headers AceMoney expects.
AceFoldedHeadersMatch(b) ==
    LET tokens == HeaderTokens("acemoney", b)
    IN  /\ Len(tokens) = Len(AceExpectedHeaders)
        /\ \A i \in 1..Len(tokens) : Lower(Strip(tokens[i])) = AceExpectedHeaders[i]

\* Trimmed of whitespace and of surrounding quote characters, the header
\* tokens of b are the headers Danske Bank expects, in their case.
DanskeExactHeadersMatch(b) ==
    LET tokens == HeaderTokens("danske_bank", b)
    IN  /\ Len(tokens) = Len(DanskeExpectedHeaders)
        /\ \A i \in 1..Len(tokens) : StripQuoted(tokens[i]) = DanskeExpectedHeaders[i]

\* Trimmed of whitespace and of surrounding quote characters, the header
\* tokens of b hold every header Danske Bank requires, in its case.
DanskeRequiredHeadersPresent(b) ==
    LET tokens == HeaderTokens("danske_bank", b)
    IN  \A req \in {<<"Dato">>, <<"Tekst">>, <<"Saldo">>, <<"Status">>} :
            \E i \in 1..Len(tokens) : StripQuoted(tokens[i]) = req

\* C16 as stated: a buffer whose header tokens, trimmed of whitespace and
\* surrounding quote characters and case-folded, are a format's expected
\* headers is detected as that format (Danske Bank first) and passes that
\* format's validation.
C16_HeadersCaseFolded ==
    /\ Called(detected) =>
           /\ FoldedHeadersMatch("danske_bank", file_content) => detected = Returns("danske_bank")
           /\ (/\ FoldedHeadersMatch("acemoney", file_content)
               /\ ~FoldedHeadersMatch("danske_bank", file_content))
              => detected = Returns("acemoney")
    /\ validated.by # "" /\ FoldedHeadersMatch(validated.by, file_content) =>
           validated.errors = <<>>

\* C16 amended: AceMoney header tokens are compared trimmed of whitespace
\* and case-folded, Danske Bank header tokens trimmed of whitespace and of
\* surrounding quote characters but in their case: a header row that
\* differs from the Danske Bank headers in letter case and lacks a required
\* header in its case is neither detected as Danske Bank nor valid.
C16_HeadersAsCompared ==
    LET exact == DanskeExactHeadersMatch(file_content)
        required == DanskeRequiredHeadersPresent(file_content)
        folded == AceFoldedHeadersMatch(file_content)
    IN  /\ Called(detected) =>
               /\ exact => detected = Returns("danske_bank")
               /\ ~required /\ ~exact => detected # Returns("danske_bank")
               /\ folded /\ ~required => detected = Returns("acemoney")
        /\ validated.by = "acemoney" /\ folded => validated.errors = <<>>
        /\ validated.by = "danske_bank" =>
               /\ exact => validated.errors = <<>>
               /\ ~required /\ ~exact => validated.errors # <<>>

\* C16 at work: a header row that differs from the AceMoney headers in
\* letter case only was detected as AceMoney and found valid.
C16_Witness ==
    /\ HeaderTokens("acemoney", file_content) # AceExpectedHeaders
    /\ AceFoldedHeadersMatch(file_content)
    /\ \A i \in 1..Len(AceExpectedHeaders) :
           Strip(HeaderTokens("acemoney", file_content)[i]) # AceExpectedHeaders[i]
               => Lower(HeaderTokens("acemoney", file_content)[i]) = AceExpectedHeaders[i]
    /\ \E i \in 1..Len(AceExpectedHeaders) :
           HeaderTokens("acemoney", file_content)[i] # AceExpectedHeaders[i]
    /\ detected = Returns("acemoney")
    /\ validated = [by |-> "acemoney", errors |-> <<>>]

\* b passes the header check of a format in detect_csv_format.
PassesDanskeCheck(b) ==
    \E k \in 1..Len(DanskeEncodings) : DanskeDetectTry(b, DanskeEncodings[k]) = "match"
PassesAceCheck(b) == AceDetectTry(b) = "match"

\* C17: no buffer passes both the Danske Bank header check and the
\* AceMoney header check, and the tag detect_csv_format returns is that of
\* the only format whose check the buffer passes.
C17_NoFalsePositives ==
    LET danske == PassesDanskeCheck(file_content)
        ace == PassesAceCheck(file_content)
    IN  /\ ~(danske /\ ace)
        /\ Called(detected) /\ detected.exc = "" =>
               /\ detected.value \in {"danske_bank", "acemoney"}
               /\ detected.value = "danske_bank" => danske /\ ~ace
               /\ detected.value = "acemoney" => ace /\ ~danske

\* C17 at work: the first line of the buffer holds both delimiters and the
\* nine AceMoney headers, and the buffer was detected as Danske Bank, whose
\* check alone it passes.
C17_Witness ==
    /\ InList(",", FirstLine(file_content)) /\ InList(";", FirstLine(file_content))
    /\ Contains(FirstLine(file_content), <<"withdrawal", ",", "deposit">>)
    /\ detected = Returns("danske_bank")
    /\ ~PassesAceCheck(file_content)

\* ------------------------------------------------- interleaved calls --
\* Two callers run calls of the module side by side, as two request
\* threads do; both use the same AceMoneyParser, DanskeBankParser and
\* CSVGenerator objects.  The objects have no attributes: the code assigns
\* none, and EXPECTED_HEADERS, REQUIRED_HEADERS and HEADER_ALIASES are only
\* read.  What a call keeps between its steps is in its frame.  parse runs
\* in steps, one per turn of its loop; the other calls have no loop over
\* their own state and run in one step.

SharedGoodDate == <<"2", "0", ".", "0", "7", ".", "2", "0", "2", "3">>

\* rows for the interleaved calls: a withdrawal, a deposit, a row without
\* an amount, a row without a payee
SharedAceWithdrawal == AceRowLine(AceGoodDate, AceGoodPayee, AceGoodWithdrawal, <<>>)
SharedAceDeposit == AceRowLine(SharedGoodDate, <<"Q">>, <<>>, <<"5", ".", "0", "0">>)
SharedAceMemo == AceRowLine(SharedGoodDate, <<"M">>, <<>>, <<>>)
SharedAceNoPayee == AceRowLine(AceGoodDate, <<>>, AceGoodWithdrawal, <<>>)

\* a record, a row without an amount, a row with a date that is none
SharedDanskeRecord == DanskeRowLine(DanskeGoodDate, DanskeGoodPayee, DanskeGoodAmount)
SharedDanskeMemo == DanskeRowLine(DanskeGoodDate, <<"M">>, <<>>)
SharedDanskeNoDate == DanskeRowLine(<<"4", "1", ".", "8", "0">>, DanskeGoodPayee, DanskeGoodAmount)

\* the buffers of the interleaved calls: files of either format that give
\* two records, one record after a row that is passed over, an error in
\* the second data row, and a buffer of neither format
SharedFiles ==
    { AceHeaderLine \o SharedAceWithdrawal \o SharedAceDeposit,
      AceHeaderLine \o SharedAceMemo \o SharedAceWithdrawal,
      AceHeaderLine \o SharedAceDeposit \o SharedAceNoPayee,
      DanskeHeaderLine \o SharedDanskeRecord \o SharedDanskeRecord,
      DanskeHeaderLine \o SharedDanskeMemo \o SharedDanskeRecord,
      DanskeHeaderLine \o SharedDanskeRecord \o SharedDanskeNoDate,
      <<"wrong", ",", "format", ",", "here", "\n">> }

\* A frame whose call is over.
Done(fr, result) == [fr EXCEPT !.pc = "done", !.result = result]

\* A list kept in one place for every call, as an attribute of the shared
\* parser would be: C18_CallsIndependent tells it from Transactions.
TransactionsOfFirstCaller(fr, c) == fr[1].transactions

\* The list the name transactions denotes in the call of caller c: a local
\* of parse, made anew by transactions = [] in each call.
Transactions(fr, c) == fr[c].transactions

\* parse up to its loop: validation, decoding, the header and, for Danske
\* Bank, the amount column; transactions = [].
ParseEnter(fr, errors, p, header) ==
    IF errors # <<>> THEN Done(fr, Raises("ValueError", JoinErrors(errors), <<>>))
    ELSE IF fr.parser = "acemoney" /\ (ReaderNext(FirstLine(p.text), 1, ",").error \/ header.error)
    THEN Done(fr, Raises("Error", CsvErrorMsg, <<>>))
    ELSE IF fr.parser = "danske_bank" /\ p.amount_col = <<>>
    THEN Done(fr, Raises("ValueError", NoAmountColMsg, <<>>))
    ELSE [fr EXCEPT !.pc = "loop", !.i = header.next, !.row_num = 2, !.transactions = <<>>]

\* One turn of for row_num, row in enumerate(reader, start=2), r being what
\* next(reader) gave and acc the list transactions denotes; past the last
\* row, the check that follows the loop and the return.
ParseTurn(fr, p, r, acc) ==
    IF r.stop
    THEN Done(fr, IF acc = <<>> THEN Raises("ValueError", NoTransactionsMsg, <<>>)
                  ELSE Returns(acc))
    ELSE IF r.error THEN Done(fr, Raises("Error", CsvErrorMsg, <<>>))
    ELSE IF r.fields = <<>> THEN [fr EXCEPT !.i = r.next]
    ELSE LET o == LoopBody(p, r.fields, fr.row_num)
         IN  IF o.kind = "raise" THEN Done(fr, Raises(o.exc, o.msg, <<>>))
             ELSE [fr EXCEPT !.i = r.next, !.row_num = fr.row_num + 1,
                             !.transactions = IF o.kind = "txn" THEN Append(acc, o.txn) ELSE acc]

SharedInit ==
    /\ file_content = <<>>
    /\ libcPadsYear \in BOOLEAN
    /\ detected = NotCalled("")
    /\ factory = NotCalled("")
    /\ validated = [by |-> "", errors |-> <<>>]
    /\ parsed = [by |-> "", result |-> NotCalled(<<>>)]
    /\ generated = NotCalled(<<>>)
    /\ reparsed = NotCalled(<<>>)
    /\ frames = [c \in Callers |-> Idle]
    /\ database = EmptyDb
    /\ request = NoRequest
    /\ NothingElse

SharedUnchanged ==
    UNCHANGED <<threads, manager, endpoints, broadcast, database, request, file_content, libcPadsYear, detected, factory, validated, parsed, generated, reparsed>>

\* Caller c calls detect_csv_format(b).
CallDetect(c, b) ==
    /\ frames[c].op = "idle"
    /\ frames' = [frames EXCEPT ![c] =
           Done([Idle EXCEPT !.op = "detect", !.input = b], detect_csv_format(b))]
    /\ SharedUnchanged

\* Caller c calls get_parser(b).
CallGetParser(c, b) ==
    /\ frames[c].op = "idle"
    /\ frames' = [frames EXCEPT ![c] =
           Done([Idle EXCEPT !.op = "get_parser", !.input = b], get_parser(b))]
    /\ SharedUnchanged

\* Caller c calls validate(b) on the shared parser p.
CallValidate(c, p, b) ==
    /\ frames[c].op = "idle"
    /\ frames' = [frames EXCEPT ![c] =
           Done([Idle EXCEPT !.op = "validate", !.parser = p, !.input = b],
                Returns(IF p = "acemoney" THEN AceValidate(b) ELSE DanskeValidate(b)))]
    /\ SharedUnchanged

\* Caller c calls parse(b) on the shared parser p and runs it up to its loop.
EnterParse(c, p, b) ==
    /\ frames[c].op = "idle"
    /\ LET loop == LoopOf(p, b)
       IN  frames' = [frames EXCEPT ![c] =
               ParseEnter([Idle EXCEPT !.op = "parse", !.parser = p, !.input = b],
                          IF p = "acemoney" THEN AceValidate(b) ELSE DanskeValidate(b),
                          loop, ReaderNext(loop.text, 1, loop.delim))]
    /\ SharedUnchanged

\* The parse of caller c makes one turn of its loop.
TurnParse(c) ==
    /\ frames[c].op = "parse"
    /\ frames[c].pc = "loop"
    /\ LET loop == LoopOf(frames[c].parser, frames[c].input)
       IN  frames' = [frames EXCEPT ![c] =
               ParseTurn(frames[c], loop, ReaderNext(loop.text, frames[c].i, loop.delim),
                         Transactions(frames, c))]
    /\ SharedUnchanged

\* Caller c calls generate on the list that the parse of caller d returned.
CallGenerate(c, d) ==
    /\ frames[c].op = "idle"
    /\ frames[d].op = "parse"
    /\ frames[d].pc = "done"
    /\ frames[d].result.exc = ""
    /\ frames' = [frames EXCEPT ![c] =
           Done([Idle EXCEPT !.op = "generate", !.transactions = frames[d].result.value],
                Generate(ToDicts(frames[d].result.value)))]
    /\ SharedUnchanged

\* The call of caller c is over and its caller goes on to the next.
ReturnTo(c) ==
    /\ frames[c].pc = "done"
    /\ frames' = [frames EXCEPT ![c] = Idle]
    /\ SharedUnchanged

SharedNext ==
    \/ \E c \in Callers, b \in SharedFiles : CallDetect(c, b)
    \/ \E c \in Callers, b \in SharedFiles : CallGetParser(c, b)
    \/ \E c \in Callers, p \in Parsers, b \in SharedFiles : CallValidate(c, p, b)
    \/ \E c \in Callers, p \in Parsers, b \in SharedFiles : EnterParse(c, p, b)
    \/ \E c \in Callers : TurnParse(c)
    \/ \E c, d \in Callers : CallGenerate(c, d)
    \/ \E c \in Callers : ReturnTo(c)

SharedSpec == SharedInit /\ [][SharedNext]_vars

\* What a call gives when it runs alone, start to end.
Alone(fr) ==
    CASE fr.op = "detect" -> detect_csv_format(fr.input)
      [] fr.op = "get_parser" -> get_parser(fr.input)
      [] fr.op = "validate" ->
             Returns(IF fr.parser = "acemoney" THEN AceValidate(fr.input)
                     ELSE DanskeValidate(fr.input))
      [] fr.op = "parse" ->
             IF fr.parser = "acemoney" THEN AceParse(fr.input) ELSE DanskeParse(fr.input)
      [] fr.op = "generate" -> Generate(ToDicts(fr.transactions))

\* C18: the outcome of detect_csv_format, get_parser, validate, parse or
\* generate on an input is what the call gives when it runs alone, whatever
\* the other caller ran before it or runs in between its steps, also on the
\* same parser.
C18_CallsIndependent ==
    \A c \in Callers : frames[c].pc = "done" => frames[c].result = Alone(frames[c])

\* C18 at work: both callers are in parse on the same parser with
\* different inputs; the first has returned two records while the second is
\* in its loop with one record so far.
C18_Witness ==
    /\ frames[1].op = "parse" /\ frames[2].op = "parse"
    /\ frames[1].parser = frames[2].parser
    /\ frames[1].input # frames[2].input
    /\ frames[1].pc = "done" /\ frames[1].result.exc = "" /\ Len(frames[1].result.value) = 2
    /\ frames[2].pc = "loop" /\ Len(frames[2].transactions) = 1

\* ------------------------------------------- batches and transactions --
\* The requests that store, change and export what the parsers return
\* (app/routers/batches.py, app/routers/transactions.py) over the tables
\* batches and transactions (app/services/batch.py,
\* app/services/transaction.py).  A table is a function from the ids of its
\* rows to the rows.  Left out: the columns that no request here reads
\* (the timestamps, the date range of a batch, the name and the parent of a
\* category).

Users == {1, 2}

\* None of Python, NULL of SQL.
None == <<"<None>">>

\* x or None
OrNone(v) == IF v = <<>> THEN None ELSE v

\* if x: for x a str or None
Truthy(v) == v # None /\ v # <<>>

\* What csv.DictWriter writes for a value: nothing for None.
Written(v) == IF v = None THEN <<>> ELSE v

\* SELECT COUNT(*) FROM categories WHERE full_path = ?
category_exists(db, category) ==
    \E c \in DOMAIN db.categories : db.categories[c].full_path = category

\* A database that does not enforce its foreign keys:
\* C27_StatusFollowsCategory tells it from ForeignKeyHolds.
ForeignKeysOff(db, category) == TRUE

\* FOREIGN KEY (category) REFERENCES categories (full_path), with PRAGMA
\* foreign_keys = ON: a category that is stored is NULL or a full_path.
ForeignKeyHolds(db, category) == category = None \/ category_exists(db, category)

ForeignKeyFailed == <<"FOREIGN KEY constraint failed">>

\* UPDATE categories SET usage_count = usage_count + 1 WHERE full_path = ?
increment_category_usage(db, full_path) ==
    [db EXCEPT !.categories =
        [c \in DOMAIN @ |->
            IF @[c].full_path = full_path THEN [@[c] EXCEPT !.usage_count = @ + 1]
            ELSE @[c]]]

\* A table without the rows of ids.
Without(table, ids) == [k \in DOMAIN table \ ids |-> table[k]]

\* The ids of the transactions of a batch.
TransactionsOfBatch(db, batch_id) ==
    {t \in DOMAIN db.transactions : db.transactions[t].batch_id = batch_id}

\* What a service function leaves: the database and its return or raise.
DbResult(db, r) == [db |-> db, result |-> r]

\* The rows create_batch inserts for txns, in order from id db.txn_seq + 1.
NewTransactions(db, batch_id, txns) ==
    [t \in (db.txn_seq + 1)..(db.txn_seq + Len(txns)) |->
        [batch_id |-> batch_id,
         date |-> txns[t - db.txn_seq].date,
         payee |-> txns[t - db.txn_seq].payee,
         amount |-> txns[t - db.txn_seq].amount,
         category |-> OrNone(txns[t - db.txn_seq].original_category),
         note |-> OrNone(txns[t - db.txn_seq].original_comment),
         status |-> IF txns[t - db.txn_seq].original_category # <<>> THEN "categorized"
                    ELSE "uncategorized"]]

\* The transactions of txns that the loop of create_batch inserts: those
\* before the first whose original_category the foreign key refuses.
RECURSIVE Insertable(_, _)
Insertable(db, txns) ==
    IF txns = <<>> THEN <<>>
    ELSE IF ~ForeignKeyHolds(db, OrNone(Head(txns).original_category)) THEN <<>>
    ELSE <<Head(txns)>> \o Insertable(db, Tail(txns))

\* The database with the batch and the transactions inserted.
Inserted(db, name, user_id, txns) ==
    [db EXCEPT !.batches = (db.batch_seq + 1 :> [name |-> Strip(name), user_id |-> user_id,
                                                  status |-> "in_progress"]) @@ @,
               !.transactions = NewTransactions(db, db.batch_seq + 1, txns) @@ @,
               !.batch_seq = @ + 1,
               !.txn_seq = @ + Len(txns)]

\* An INSERT that the foreign key refuses raises out of the loop, before
\* db.commit(): the rows inserted so far stay in the open transaction of
\* the connection.
create_batch(db, name, user_id, txns) ==
    IF Strip(name) = <<>>
    THEN DbResult(db, Raises("ValueError", <<"Batch name is required">>, 0))
    ELSE IF txns = <<>>
    THEN DbResult(db, Raises("ValueError", <<"At least one transaction is required">>, 0))
    ELSE IF Len(Insertable(db, txns)) < Len(txns)
    THEN DbResult(Inserted(db, name, user_id, Insertable(db, txns)),
                  Raises("IntegrityError", ForeignKeyFailed, 0))
    ELSE DbResult(Inserted(db, name, user_id, txns), Returns(db.batch_seq + 1))

\* get_batch_by_id: the row, or NoBatch for None.
NoBatch == [name |-> <<>>, user_id |-> 0, status |-> ""]

get_batch_by_id(db, batch_id) ==
    IF batch_id \in DOMAIN db.batches THEN db.batches[batch_id] ELSE NoBatch

verify_batch_ownership(db, batch_id, user_id) ==
    batch_id \in DOMAIN db.batches /\ db.batches[batch_id].user_id = user_id

\* delete_batch: ON DELETE CASCADE removes the transactions of the batch.
delete_batch(db, batch_id, user_id) ==
    IF ~verify_batch_ownership(db, batch_id, user_id)
    THEN DbResult(db, Raises("ValueError",
                             <<"Batch not found or you don't have permission to delete it">>, 0))
    ELSE DbResult([db EXCEPT !.batches = Without(db.batches, {batch_id}),
                             !.transactions = Without(db.transactions,
                                                      TransactionsOfBatch(db, batch_id))],
                  Returns(0))

\* UPDATE batches SET status = ? WHERE id = ?
SetStatus(db, batch_id, status) ==
    IF batch_id \in DOMAIN db.batches THEN [db EXCEPT !.batches[batch_id].status = status]
    ELSE db

archive_batch(db, batch_id) == SetStatus(db, batch_id, "archived")

unarchive_batch(db, batch_id) == SetStatus(db, batch_id, "in_progress")

\* a < b for two TEXT values of digits and '-' (BINARY collation).
CharRank(c) == IF c \in Digits THEN 1 + DigitVal(c) ELSE 0

RECURSIVE TextLess(_, _)
TextLess(a, b) ==
    IF b = <<>> THEN FALSE
    ELSE IF a = <<>> THEN TRUE
    ELSE IF a[1] = b[1] THEN TextLess(Tail(a), Tail(b))
    ELSE CharRank(a[1]) < CharRank(b[1])

\* ORDER BY date ASC, id ASC
OrderedBefore(db, s, t) ==
    \/ TextLess(db.transactions[s].date, db.transactions[t].date)
    \/ db.transactions[s].date = db.transactions[t].date /\ s < t

RECURSIVE Ordered(_, _)
Ordered(db, ids) ==
    IF ids = {} THEN <<>>
    ELSE LET first == CHOOSE s \in ids : \A t \in ids \ {s} : OrderedBefore(db, s, t)
         IN  <<first>> \o Ordered(db, ids \ {first})

\* The dict list_transactions makes of a row.
TransactionDict(db, t) ==
    [id |-> t, batch_id |-> db.transactions[t].batch_id, date |-> db.transactions[t].date,
     payee |-> db.transactions[t].payee, amount |-> db.transactions[t].amount,
     category |-> db.transactions[t].category, note |-> db.transactions[t].note,
     status |-> db.transactions[t].status]

ListOf(db, ids) == [k \in 1..Len(ids) |-> TransactionDict(db, ids[k])]

list_transactions(db, batch_id, user_id) ==
    IF ~verify_batch_ownership(db, batch_id, user_id)
    THEN Raises("ValueError", <<"Batch not found or you don't have permission to view it">>, <<>>)
    ELSE Returns(ListOf(db, Ordered(db, TransactionsOfBatch(db, batch_id))))

\* A check that marks a batch complete when one of its transactions is
\* categorized: C23_CompleteWhenAllCategorized tells it from
\* update_batch_status_if_complete.
CompleteWhenAnyCategorized(db, batch_id) ==
    IF batch_id \notin DOMAIN db.batches THEN db
    ELSE IF db.batches[batch_id].status # "in_progress" THEN db
    ELSE IF \E t \in TransactionsOfBatch(db, batch_id) :
                db.transactions[t].status = "categorized"
    THEN SetStatus(db, batch_id, "complete")
    ELSE db

update_batch_status_if_complete(db, batch_id) ==
    IF batch_id \notin DOMAIN db.batches THEN db
    ELSE IF db.batches[batch_id].status # "in_progress" THEN db
    ELSE IF /\ TransactionsOfBatch(db, batch_id) # {}
            /\ \A t \in TransactionsOfBatch(db, batch_id) :
                   db.transactions[t].status = "categorized"
    THEN SetStatus(db, batch_id, "complete")
    ELSE db

TransactionNotFound == <<"Transaction not found">>
CategoryDoesNotExist == <<"Category does not exist">>

\* UPDATE transactions SET category = ?, note = ?, status = ? WHERE id = ?
\* and, for a category, increment_cat_usage.
UpdatedRow(db, transaction_id, category, note) ==
    LET updated == [db EXCEPT !.transactions[transaction_id] =
                       [@ EXCEPT !.category = category, !.note = note,
                                 !.status = IF Truthy(category) THEN "categorized"
                                            ELSE "uncategorized"]]
    IN  IF Truthy(category) THEN increment_category_usage(updated, category) ELSE updated

\* What update_transaction does before it writes: the ValueError of a
\* transaction that is not found or of a category that does not exist, the
\* IntegrityError of the UPDATE that the foreign key refuses (the empty
\* string passes `if category:` unvalidated), or "" to go on.
UpdateRefused(db, transaction_id, category) ==
    IF transaction_id \notin DOMAIN db.transactions
    THEN Raises("ValueError", TransactionNotFound, 0)
    ELSE IF Truthy(category) /\ ~category_exists(db, category)
    THEN Raises("ValueError", CategoryDoesNotExist, 0)
    ELSE IF ~ForeignKeyHolds(db, category)
    THEN Raises("IntegrityError", ForeignKeyFailed, 0)
    ELSE Returns(0)

update_transaction(db, transaction_id, category, note) ==
    IF UpdateRefused(db, transaction_id, category).exc # ""
    THEN DbResult(db, UpdateRefused(db, transaction_id, category))
    ELSE DbResult(
             update_batch_status_if_complete(
                 UpdatedRow(db, transaction_id, category, note),
                 db.transactions[transaction_id].batch_id),
             Returns(transaction_id))

\* update_transaction(db, transaction_id, category=None, note=None)
clear_transaction_category(db, transaction_id) ==
    update_transaction(db, transaction_id, None, None)

\* for txn_id in transaction_ids: except ValueError passes over a
\* transaction that is not found; another exception leaves the loop.
RECURSIVE BulkLoop(_, _, _, _, _)
BulkLoop(db, transaction_ids, category, note, updated_count) ==
    IF transaction_ids = <<>> THEN DbResult(db, Returns(updated_count))
    ELSE LET r == update_transaction(db, Head(transaction_ids), category, note)
         IN  IF r.result.exc \notin {"", "ValueError"} THEN r
             ELSE BulkLoop(r.db, Tail(transaction_ids), category, note,
                           IF r.result.exc = "" THEN updated_count + 1 ELSE updated_count)

\* A bulk update that leaves the category to update_transaction:
\* C22_UnknownCategoryTouchesNothing tells it from bulk_update_transactions.
BulkWithoutCategoryCheck(db, transaction_ids, category, note) ==
    IF transaction_ids = <<>>
    THEN DbResult(db, Raises("ValueError", <<"No transaction IDs provided">>, 0))
    ELSE BulkLoop(db, transaction_ids, category, note, 0)

bulk_update_transactions(db, transaction_ids, category, note) ==
    IF transaction_ids = <<>>
    THEN DbResult(db, Raises("ValueError", <<"No transaction IDs provided">>, 0))
    ELSE IF Truthy(category) /\ ~category_exists(db, category)
    THEN DbResult(db, Raises("ValueError", CategoryDoesNotExist, 0))
    ELSE BulkLoop(db, transaction_ids, category, note, 0)

\* The transactions as CSVGenerator.generate's writer sees them.
AsWritten(txns) ==
    [k \in 1..Len(txns) |->
        [date |-> txns[k].date, payee |-> txns[k].payee, amount |-> txns[k].amount,
         category |-> Written(txns[k].category), note |-> Written(txns[k].note)]]

\* ---------------------------------------------------------- the requests --

MaxBatches == 1

\* the files uploaded: an AceMoney file of two rows, the later date first;
\* a Danske Bank file whose payee latin-1 cannot encode; a file of neither
\* format; a blank file
UploadFiles ==
    { AceHeaderLine \o SharedAceWithdrawal \o SharedAceDeposit,
      DanskeHeaderLine
          \o DanskeRowLine(DanskeGoodDate, <<"0xE2", "0x82", "0xAC">>, DanskeGoodAmount),
      <<"wrong", ",", "format", ",", "here", "\n">>,
      <<" ", "\n">> }

UploadNames == {<<"b">>, <<" ">>}

\* the ids requests name: those of the rows there can be, and one beyond
TargetBatches == 1..(MaxBatches + 1)
TargetTransactions == 1..(2 * MaxBatches + 1)

\* the lists of a bulk update: one id, or two ids in a row
BulkLists ==
    {<<t>> : t \in TargetTransactions}
    \cup {<<t, t + 1>> : t \in 1..(2 * MaxBatches)}

\* the categories and notes of an update
UpdateCategories == {None, <<"Food">>, <<"Nope">>}
UpdateNotes == {None}

\* usage_count grows with every update that sets a category: the requests
\* served are those that leave it within MaxUsage.
MaxUsage == 2

WithinUsage(db) == \A c \in DOMAIN db.categories : db.categories[c].usage_count <= MaxUsage

\* A request was served with a status code and left the database as db.
Serve(op, user, batch_id, transaction_ids, code, db) ==
    /\ WithinUsage(db)
    /\ database' = db
    /\ request' = [op |-> op, user |-> user, batch_id |-> batch_id,
                   transaction_ids |-> transaction_ids, code |-> code, before |-> database]
    /\ UNCHANGED <<file_content, libcPadsYear, detected, factory, validated, parsed,
                   generated, reparsed, frames, threads, manager, endpoints, broadcast>>

\* upload_batch up to create_batch: 400 for a blank file and for a
\* ValueError of get_parser or parse, 500 for another exception.
UploadParsed(parser, parsed_transactions) ==
    IF parser.exc = "ValueError" THEN [code |-> 400, txns |-> <<>>]
    ELSE IF parser.exc # "" THEN [code |-> 500, txns |-> <<>>]
    ELSE IF parsed_transactions.exc = "ValueError" THEN [code |-> 400, txns |-> <<>>]
    ELSE IF parsed_transactions.exc # "" THEN [code |-> 500, txns |-> <<>>]
    ELSE [code |-> 201, txns |-> parsed_transactions.value]

UploadParse(file, parser) ==
    IF IsEmptyFile(file) THEN [code |-> 400, txns |-> <<>>]
    ELSE UploadParsed(parser,
                      IF parser.exc # "" THEN parser
                      ELSE IF parser.value = "AceMoneyParser" THEN AceParse(file)
                      ELSE DanskeParse(file))

\* upload_batch from create_batch on: get_db rolls back what a request
\* that raised has not committed.
UploadStore(db, name, user, up, created) ==
    IF up.code # 201 THEN [db |-> db, code |-> up.code]
    ELSE IF created.result.exc = "ValueError" THEN [db |-> db, code |-> 400]
    ELSE IF created.result.exc # "" THEN [db |-> db, code |-> 500]
    ELSE [db |-> created.db, code |-> 201]

\* POST /batches
upload_batch(file) ==
    /\ database.batch_seq < MaxBatches
    /\ LET up == UploadParse(file, get_parser(file))
       IN  \E user \in Users, name \in UploadNames :
               LET stored == UploadStore(database, name, user, up,
                                         create_batch(database, name, user, up.txns))
               IN  Serve("upload", user, 0, <<>>, stored.code, stored.db)

\* DELETE /batches/{batch_id}
delete_batch_endpoint(user, batch_id) ==
    LET r == delete_batch(database, batch_id, user)
    IN  Serve("delete", user, batch_id, <<>>, IF r.result.exc = "" THEN 200 ELSE 404, r.db)

\* if not batch or batch['user_id'] != user['id']
NotFoundFor(db, batch_id, user) ==
    get_batch_by_id(db, batch_id) = NoBatch \/ get_batch_by_id(db, batch_id).user_id # user

\* POST /batches/{batch_id}/archive
archive_batch_endpoint(user, batch_id) ==
    IF NotFoundFor(database, batch_id, user)
    THEN Serve("archive", user, batch_id, <<>>, 404, database)
    ELSE Serve("archive", user, batch_id, <<>>, 200, archive_batch(database, batch_id))

\* POST /batches/{batch_id}/unarchive
unarchive_batch_endpoint(user, batch_id) ==
    IF NotFoundFor(database, batch_id, user)
    THEN Serve("unarchive", user, batch_id, <<>>, 404, database)
    ELSE Serve("unarchive", user, batch_id, <<>>, 200, unarchive_batch(database, batch_id))

\* A download that archives the batch before it generates the CSV:
\* C19_DownloadArchives tells it from Downloaded.
ArchivedBeforeGenerating(db, batch_id, csv_bytes) ==
    [db |-> archive_batch(db, batch_id), code |-> IF csv_bytes.exc # "" THEN 500 ELSE 200]

\* download_batch from generator.generate on: an exception of generate
\* leaves the handler before archive_batch.
Downloaded(db, batch_id, csv_bytes) ==
    IF csv_bytes.exc # "" THEN [db |-> db, code |-> 500]
    ELSE [db |-> archive_batch(db, batch_id), code |-> 200]

\* GET /batches/{batch_id}/download
download_batch(user, batch_id) ==
    LET transactions == list_transactions(database, batch_id, user)
    IN  IF NotFoundFor(database, batch_id, user) \/ transactions.exc # ""
        THEN Serve("download", user, batch_id, <<>>, 404, database)
        ELSE LET done == Downloaded(database, batch_id,
                                    Generate(AsWritten(transactions.value)))
             IN  Serve("download", user, batch_id, <<>>, done.code, done.db)

\* GET /batches/{batch_id}/transactions
get_batch_transactions(user, batch_id) ==
    Serve("list", user, batch_id, <<>>,
          IF list_transactions(database, batch_id, user).exc = "" THEN 200 ELSE 404, database)

\* PUT /transactions/{transaction_id}
update_transaction_endpoint(user, transaction_id, category, note) ==
    LET r == update_transaction(database, transaction_id, category, note)
    IN  Serve("update", user, 0, <<transaction_id>>,
              IF r.result.exc = "" THEN 200
              ELSE IF r.result.exc # "ValueError" THEN 500
              ELSE IF r.result.msg = TransactionNotFound THEN 404 ELSE 400,
              r.db)

\* PUT /transactions/bulk
bulk_update_endpoint(user, transaction_ids, category, note) ==
    LET r == bulk_update_transactions(database, transaction_ids, category, note)
    IN  Serve("bulk_update", user, 0, transaction_ids,
              IF r.result.exc = "" THEN 200
              ELSE IF r.result.exc = "ValueError" THEN 400 ELSE 500,
              r.db)

\* The dates uploaded here have years of four digits, which every C
\* library writes alike.
DbInit ==
    /\ file_content = <<>>
    /\ libcPadsYear = TRUE
    /\ detected = NotCalled("")
    /\ factory = NotCalled("")
    /\ validated = [by |-> "", errors |-> <<>>]
    /\ parsed = [by |-> "", result |-> NotCalled(<<>>)]
    /\ generated = NotCalled(<<>>)
    /\ reparsed = NotCalled(<<>>)
    /\ frames = [c \in Callers |-> Idle]
    /\ database = EmptyDb
    /\ request = NoRequest
    /\ NothingElse

DbNext ==
    \/ \E file \in UploadFiles : upload_batch(file)
    \/ \E user \in Users, batch_id \in TargetBatches : delete_batch_endpoint(user, batch_id)
    \/ \E user \in Users, batch_id \in TargetBatches : archive_batch_endpoint(user, batch_id)
    \/ \E user \in Users, batch_id \in TargetBatches : unarchive_batch_endpoint(user, batch_id)
    \/ \E user \in Users, batch_id \in TargetBatches : download_batch(user, batch_id)
    \/ \E user \in Users, batch_id \in TargetBatches : get_batch_transactions(user, batch_id)
    \/ \E user \in Users, t \in TargetTransactions, category \in UpdateCategories,
          note \in UpdateNotes : update_transaction_endpoint(user, t, category, note)
    \/ \E user \in Users, ids \in BulkLists, category \in UpdateCategories :
          bulk_update_endpoint(user, ids, category, None)

DbSpec == DbInit /\ [][DbNext]_vars

\* C19: after a download that succeeded the caller owned the batch and its
\* status is 'archived', whatever it was; after a download that failed (no
\* such batch, another user's batch, or generate raised) no batch has
\* changed.
C19_DownloadArchives ==
    request.op = "download" =>
        IF request.code = 200
        THEN /\ request.before.batches[request.batch_id].user_id = request.user
             /\ database.batches[request.batch_id].status = "archived"
        ELSE database.batches = request.before.batches

\* C19 at work: the owner downloaded a batch that was complete, and it is
\* archived now.
C19_Witness ==
    /\ request.op = "download"
    /\ request.code = 200
    /\ request.before.batches[request.batch_id].status = "complete"
    /\ database.batches[request.batch_id].status = "archived"

\* A download failed because generate raised, on a batch that was not
\* archived.
C19_GenerateRaised ==
    /\ request.op = "download"
    /\ request.code = 500
    /\ request.before.batches[request.batch_id].status = "in_progress"

\* The batches a request is aimed at: the batch it names, and the batches
\* of the transactions it names.
AimedAt(req) ==
    {req.batch_id} \cup {req.before.transactions[t].batch_id :
                            t \in {req.transaction_ids[k] : k \in 1..Len(req.transaction_ids)}
                                  \cap DOMAIN req.before.transactions}

\* C20: a request of a user to delete, archive, unarchive, download, list
\* or update leaves every batch of another user and all its transactions
\* as they were, and fails with 403 or 404 when it is aimed at such a batch.
C20_OwnershipIsolation ==
    request.op \in {"delete", "archive", "unarchive", "download", "list", "update", "bulk_update"} =>
        \A b \in DOMAIN request.before.batches :
            request.before.batches[b].user_id # request.user =>
                /\ b \in DOMAIN database.batches
                /\ database.batches[b] = request.before.batches[b]
                /\ \A t \in TransactionsOfBatch(request.before, b) :
                       /\ t \in DOMAIN database.transactions
                       /\ database.transactions[t] = request.before.transactions[t]
                /\ b \in AimedAt(request) => request.code \in {403, 404}

\* ------------------------------------- the services, called in turn --
\* The functions of app/services/batch.py and app/services/transaction.py
\* called one after another on one connection, as the service tests call
\* them.

\* the transactions handed to create_batch: two uncategorized ones; one
\* that comes with a category and a comment; one with a category before one
\* with a category that is not in the table; none
ServiceTransaction(original_category, original_comment) ==
    ParsedTransaction(<<"2", "0", "2", "3", "-", "0", "7", "-", "2", "1">>, <<"P">>,
                      "-1.0", original_category, original_comment)

CreateInputs ==
    { <<ServiceTransaction(<<>>, <<>>), ServiceTransaction(<<>>, <<>>)>>,
      <<ServiceTransaction(<<"Food", ":", "Sub">>, <<"n">>)>>,
      <<ServiceTransaction(<<"Food">>, <<>>), ServiceTransaction(<<"Nope">>, <<>>)>>,
      <<>> }

\* the categories and notes of an update: None, the empty string, a
\* category of the table, a category that is not in the table
ServiceCategories == {None, <<>>, <<"Food">>, <<"Nope">>}
ServiceNotes == {None, <<"n">>}

\* A service function was called and left the database of r.
Answer(op, batch_id, transaction_ids, category, note, r) ==
    /\ WithinUsage(r.db)
    /\ database' = r.db
    /\ request' = [op |-> op, user |-> 0, batch_id |-> batch_id,
                   transaction_ids |-> transaction_ids, category |-> category, note |-> note,
                   code |-> 0, result |-> r.result, before |-> database]
    /\ UNCHANGED <<file_content, libcPadsYear, detected, factory, validated, parsed,
                   generated, reparsed, frames, threads, manager, endpoints, broadcast>>

CallCreateBatch(txns) ==
    /\ database.batch_seq < MaxBatches
    /\ Answer("create_batch", 0, <<>>, None, None, create_batch(database, <<"b">>, 1, txns))

CallUpdateTransaction(transaction_id, category, note) ==
    Answer("update_transaction", 0, <<transaction_id>>, category, note,
           update_transaction(database, transaction_id, category, note))

CallBulkUpdate(transaction_ids, category, note) ==
    Answer("bulk_update_transactions", 0, transaction_ids, category, note,
           bulk_update_transactions(database, transaction_ids, category, note))

CallClearCategory(transaction_id) ==
    Answer("clear_transaction_category", 0, <<transaction_id>>, None, None,
           clear_transaction_category(database, transaction_id))

CallArchiveBatch(batch_id) ==
    Answer("archive_batch", batch_id, <<>>, None, None,
           DbResult(archive_batch(database, batch_id), Returns(0)))

CallUnarchiveBatch(batch_id) ==
    Answer("unarchive_batch", batch_id, <<>>, None, None,
           DbResult(unarchive_batch(database, batch_id), Returns(0)))

CallStatusIfComplete(batch_id) ==
    Answer("update_batch_status_if_complete", batch_id, <<>>, None, None,
           DbResult(update_batch_status_if_complete(database, batch_id), Returns(0)))

ServiceInit == DbInit

ServiceNext ==
    \/ \E txns \in CreateInputs : CallCreateBatch(txns)
    \/ \E t \in TargetTransactions, category \in ServiceCategories, note \in ServiceNotes :
          CallUpdateTransaction(t, category, note)
    \/ \E ids \in BulkLists, category \in ServiceCategories, note \in ServiceNotes :
          CallBulkUpdate(ids, category, note)
    \/ \E t \in TargetTransactions : CallClearCategory(t)
    \/ \E batch_id \in TargetBatches : CallArchiveBatch(batch_id)
    \/ \E batch_id \in TargetBatches : CallUnarchiveBatch(batch_id)
    \/ \E batch_id \in TargetBatches : CallStatusIfComplete(batch_id)

ServiceSpec == ServiceInit /\ [][ServiceNext]_vars

\* The transactions a call names that were there before it.
Listed(req) ==
    {req.transaction_ids[k] : k \in 1..Len(req.transaction_ids)}
        \cap DOMAIN req.before.transactions

\* C21: after bulk_update_transactions with category None every listed
\* transaction has the category it had, and after bulk_update_transactions
\* with note None every listed transaction has the note it had.
C21_NoneLeavesUnchanged ==
    request.op = "bulk_update_transactions" /\ request.result.exc = "" =>
        \A t \in Listed(request) :
            /\ request.category = None =>
                   database.transactions[t].category = request.before.transactions[t].category
            /\ request.note = None =>
                   database.transactions[t].note = request.before.transactions[t].note

\* C22: bulk_update_transactions with a category that is not in the table
\* raises the 'does not exist' ValueError and leaves the database as it
\* was: every transaction, every usage count, every batch.
C22_UnknownCategoryTouchesNothing ==
    /\ request.op = "bulk_update_transactions"
    /\ Truthy(request.category)
    /\ ~category_exists(request.before, request.category)
    => /\ request.result.exc = "ValueError"
       /\ request.result.msg = CategoryDoesNotExist
       /\ database.transactions = request.before.transactions
       /\ database.categories = request.before.categories
       /\ database.batches = request.before.batches

\* C22 at work: a bulk update named two transactions of a batch in
\* progress and a category that is not in the table, and was refused.
C22_Witness ==
    /\ request.op = "bulk_update_transactions"
    /\ request.category = <<"Nope">>
    /\ Len(request.transaction_ids) = 2
    /\ Cardinality(Listed(request)) = 2
    /\ \A t \in Listed(request) :
           request.before.batches[request.before.transactions[t].batch_id].status = "in_progress"
    /\ request.result.exc = "ValueError"

\* Whether a batch of db has a transaction and has only categorized ones.
AllCategorized(db, batch_id) ==
    /\ TransactionsOfBatch(db, batch_id) # {}
    /\ \A t \in TransactionsOfBatch(db, batch_id) : db.transactions[t].status = "categorized"

\* C23: after update_transaction returned for a transaction of a batch
\* that was 'in_progress', the batch is 'complete' if it has a transaction
\* and all its transactions are 'categorized', and 'in_progress' otherwise;
\* update_batch_status_if_complete on a batch that is not there or is not
\* 'in_progress' changes nothing.
C23_CompleteWhenAllCategorized ==
    /\ /\ request.op = "update_transaction"
       /\ request.result.exc = ""
       /\ \A t \in Listed(request) :
              request.before.batches[request.before.transactions[t].batch_id].status
                  = "in_progress"
       => \A t \in Listed(request) :
              database.batches[request.before.transactions[t].batch_id].status
                  = IF AllCategorized(database, request.before.transactions[t].batch_id)
                    THEN "complete" ELSE "in_progress"
    /\ /\ request.op = "update_batch_status_if_complete"
       /\ \/ request.batch_id \notin DOMAIN request.before.batches
          \/ request.before.batches[request.batch_id].status # "in_progress"
       => database = request.before

\* C23 at work: update_transaction categorized the last uncategorized
\* transaction of a batch of two, and the batch went from 'in_progress' to
\* 'complete'.
C23_Witness ==
    /\ request.op = "update_transaction"
    /\ request.result.exc = ""
    /\ \E t \in Listed(request) :
           LET b == request.before.transactions[t].batch_id
           IN  /\ Cardinality(TransactionsOfBatch(database, b)) = 2
               /\ request.before.batches[b].status = "in_progress"
               /\ database.batches[b].status = "complete"

\* update_batch_status_if_complete was asked about a batch that was
\* 'complete' or 'archived' and whose status it left.
C23_LeftAlone ==
    /\ request.op = "update_batch_status_if_complete"
    /\ request.batch_id \in DOMAIN request.before.batches
    /\ request.before.batches[request.batch_id].status = "archived"
    /\ AllCategorized(request.before, request.batch_id)

\* C26: a batch that is 'complete' has a transaction, and all its
\* transactions are 'categorized'.
C26_CompleteMeansCategorized ==
    \A b \in DOMAIN database.batches :
        database.batches[b].status = "complete" => AllCategorized(database, b)

\* get_batch_progress: total_count and categorized_count.
get_batch_progress(db, batch_id) ==
    [total_count |-> Cardinality(TransactionsOfBatch(db, batch_id)),
     categorized_count |->
         Cardinality({t \in TransactionsOfBatch(db, batch_id) :
                         db.transactions[t].category # None})]

\* C27: a transaction is 'categorized' exactly when its category is not
\* NULL, and the categorized_count of get_batch_progress is the number of
\* 'categorized' transactions of the batch.
C27_StatusFollowsCategory ==
    /\ \A t \in DOMAIN database.transactions :
           database.transactions[t].status = "categorized"
               <=> database.transactions[t].category # None
    /\ \A b \in DOMAIN database.batches :
           get_batch_progress(database, b).categorized_count
               = Cardinality({t \in TransactionsOfBatch(database, b) :
                                 database.transactions[t].status = "categorized"})

\* C27 at work: update_transaction was called with the empty string for a
\* transaction that had a category, the foreign key refused the UPDATE, and
\* the transaction is still categorized.
C27_Witness ==
    /\ request.op = "update_transaction"
    /\ request.category = <<>>
    /\ request.result.exc = "IntegrityError"
    /\ \E t \in Listed(request) :
           /\ database.transactions[t].status = "categorized"
           /\ database.transactions[t].category = <<"Food">>

\* ------------------------------- update_transaction against archive --
\* update_transaction_endpoint, archive_batch_endpoint and the other
\* routes are plain `def` routes: each request runs on a thread of the
\* pool with a connection of its own (get_db), so the statements of two
\* requests interleave.  update_transaction is taken in four steps, one for
\* each place where it reads or writes the batch: the UPDATE of the row and
\* its commit; the SELECT of the status; the SELECT of the counts; the
\* UPDATE of the status and its commit.

Threads == {1, 2}

\* A thread that is in no call.
Resting == [pc |-> "idle", batch_id |-> 0]

\* A thread took a step of op and left the database as db and itself as frame.
Step(op, th, frame, db) ==
    /\ WithinUsage(db)
    /\ database' = db
    /\ threads' = [threads EXCEPT ![th] = frame]
    /\ request' = [op |-> op, user |-> th, batch_id |-> frame.batch_id, transaction_ids |-> <<>>,
                   code |-> 0, before |-> database]
    /\ UNCHANGED <<file_content, libcPadsYear, detected, factory, validated, parsed,
                   generated, reparsed, frames, manager, endpoints, broadcast>>

\* update_transaction up to its db.commit(): a call that is refused
\* returns at once.
BeginUpdate(th, transaction_id, category) ==
    /\ threads[th].pc = "idle"
    /\ IF UpdateRefused(database, transaction_id, category).exc # ""
       THEN Step("update_transaction", th, Resting, database)
       ELSE Step("update_transaction", th,
                 [pc |-> "status", batch_id |-> database.transactions[transaction_id].batch_id],
                 UpdatedRow(database, transaction_id, category, None))

\* update_batch_status_if_complete: SELECT status FROM batches WHERE id = ?
ReadStatus(th) ==
    /\ threads[th].pc = "status"
    /\ IF \/ threads[th].batch_id \notin DOMAIN database.batches
          \/ database.batches[threads[th].batch_id].status # "in_progress"
       THEN Step("update_transaction", th, Resting, database)
       ELSE Step("update_transaction", th, [threads[th] EXCEPT !.pc = "count"], database)

\* update_batch_status_if_complete: SELECT COUNT(*), SUM(...) FROM transactions
ReadCounts(th) ==
    /\ threads[th].pc = "count"
    /\ IF /\ TransactionsOfBatch(database, threads[th].batch_id) # {}
          /\ \A t \in TransactionsOfBatch(database, threads[th].batch_id) :
                 database.transactions[t].status = "categorized"
       THEN Step("update_transaction", th, [threads[th] EXCEPT !.pc = "write"], database)
       ELSE Step("update_transaction", th, Resting, database)

\* update_batch_status_if_complete: UPDATE batches SET status = 'complete' WHERE id = ?
WriteComplete(th) ==
    /\ threads[th].pc = "write"
    /\ Step("update_transaction", th, Resting,
            SetStatus(database, threads[th].batch_id, "complete"))

\* The requests of other threads, each one statement and its commit.
RaceArchive(th, batch_id) ==
    /\ threads[th].pc = "idle"
    /\ Step("archive_batch", th, Resting, archive_batch(database, batch_id))

RaceUnarchive(th, batch_id) ==
    /\ threads[th].pc = "idle"
    /\ Step("unarchive_batch", th, Resting, unarchive_batch(database, batch_id))

RaceDelete(th, batch_id) ==
    /\ threads[th].pc = "idle"
    /\ Step("delete_batch", th, Resting, delete_batch(database, batch_id, 1).db)

\* One batch of two uncategorized transactions is there.
RaceInit ==
    /\ file_content = <<>>
    /\ libcPadsYear = TRUE
    /\ detected = NotCalled("")
    /\ factory = NotCalled("")
    /\ validated = [by |-> "", errors |-> <<>>]
    /\ parsed = [by |-> "", result |-> NotCalled(<<>>)]
    /\ generated = NotCalled(<<>>)
    /\ reparsed = NotCalled(<<>>)
    /\ frames = [c \in Callers |-> Idle]
    /\ database = create_batch(EmptyDb, <<"b">>, 1,
                               <<ServiceTransaction(<<>>, <<>>),
                                 ServiceTransaction(<<>>, <<>>)>>).db
    /\ request = NoRequest
    /\ threads = [th \in Threads |-> Resting]
    /\ manager = NewManager
    /\ endpoints = <<>>
    /\ broadcast = NoBroadcast

RaceNext ==
    \/ \E th \in Threads, t \in TargetTransactions, category \in {None, <<"Food">>} :
          BeginUpdate(th, t, category)
    \/ \E th \in Threads : ReadStatus(th)
    \/ \E th \in Threads : ReadCounts(th)
    \/ \E th \in Threads : WriteComplete(th)
    \/ \E th \in Threads, batch_id \in TargetBatches : RaceArchive(th, batch_id)
    \/ \E th \in Threads, batch_id \in TargetBatches : RaceUnarchive(th, batch_id)
    \/ \E th \in Threads, batch_id \in TargetBatches : RaceDelete(th, batch_id)

RaceSpec == RaceInit /\ [][RaceNext]_vars

\* C24: a step of update_transaction leaves every batch that was
\* 'archived' there and 'archived', also when archive_batch ran between its
\* read and its write of the status; only unarchive_batch and delete_batch
\* take a batch out of 'archived'.
C24_ArchivedStaysArchived ==
    request.op \notin {"none", "unarchive_batch", "delete_batch"} =>
        \A b \in DOMAIN request.before.batches :
            request.before.batches[b].status = "archived" =>
                /\ b \in DOMAIN database.batches
                /\ database.batches[b].status = "archived"

\* ----------------------------------------------------------------- C25 --

\* The three outcomes of parse on a file that passed validation: records,
\* a ValueError that names a row, the ValueError 'No transactions found'.
HasRecords(result) == result.exc = "" /\ result.value # <<>>

NamesRow(result) == result.exc = "ValueError" /\ Contains(result.msg, <<"Row ">>)

FoundNoTransactions(result) == result.exc = "ValueError" /\ result.msg = NoTransactionsMsg

\* C25: on a file for which a parser's validate returns no error, that
\* parser's parse returns a list of records that is not empty, or raises a
\* ValueError that names a row number, or raises the ValueError 'No
\* transactions found', and nothing else.
C25_ParseOutcomes ==
    parsed.by # "" /\ PassesValidation(parsed.by, file_content) =>
        \/ HasRecords(parsed.result)
        \/ NamesRow(parsed.result)
        \/ FoundNoTransactions(parsed.result)

\* Parse left a validated file with an exception that is no ValueError.
C25_OtherException ==
    /\ parsed.by # ""
    /\ PassesValidation(parsed.by, file_content)
    /\ parsed.result.exc \notin {"", "ValueError"}

\* Parse left a validated Danske Bank file with a ValueError about the
\* file, not about a row.
C25_NoRowNamed ==
    /\ parsed.by = "danske_bank"
    /\ PassesValidation(parsed.by, file_content)
    /\ parsed.result.exc = "ValueError"
    /\ ~NamesRow(parsed.result)
    /\ ~FoundNoTransactions(parsed.result)

\* ------------------------------------------- deleting a category --
\* delete_category_with_replacement (app/services/category.py) over the
\* tables categories and transactions.

\* text LIKE full_path || ':%'.  LIKE folds the case of ASCII letters; no
\* full_path of the model holds its wildcards % and _.
LikeDescendant(full_path, text) ==
    /\ text # None
    /\ Len(text) >= Len(full_path) + 1
    /\ Lower(SubSeq(text, 1, Len(full_path) + 1)) = Lower(full_path \o <<":">>)

\* UPDATE transactions SET category = new WHERE category = old, and
\* WHERE category LIKE old || ':%'
Replaced(db, old_full_path, new_full_path) ==
    [db EXCEPT !.transactions =
        [t \in DOMAIN @ |->
            IF \/ @[t].category = old_full_path
               \/ LikeDescendant(old_full_path, @[t].category)
            THEN [@[t] EXCEPT !.category = new_full_path]
            ELSE @[t]]]

\* SELECT COUNT(*) FROM transactions WHERE category = new, and
\* UPDATE categories SET usage_count = ? WHERE id = replacement_id
Recounted(db, replacement_id, new_full_path) ==
    [db EXCEPT !.categories[replacement_id].usage_count =
        Cardinality({t \in DOMAIN db.transactions :
                        db.transactions[t].category = new_full_path})]

\* DELETE FROM categories WHERE id = category_id, and WHERE full_path LIKE
\* old || ':%'; ON DELETE SET NULL clears the category of the transactions
\* that reference a row that goes.
CategoriesDeleted(db, category_id, old_full_path) ==
    LET gone == {c \in DOMAIN db.categories :
                    \/ c = category_id
                    \/ LikeDescendant(old_full_path, db.categories[c].full_path)}
        paths == {db.categories[c].full_path : c \in gone}
    IN  [db EXCEPT !.categories = Without(@, gone),
                   !.transactions =
                       [t \in DOMAIN @ |->
                           IF @[t].category \in paths THEN [@[t] EXCEPT !.category = None]
                           ELSE @[t]]]

delete_category_with_replacement(db, category_id, replacement_id) ==
    IF category_id \notin DOMAIN db.categories
    THEN DbResult(db, Raises("ValueError", <<"Category not found">>, 0))
    ELSE IF replacement_id \notin DOMAIN db.categories
    THEN DbResult(db, Raises("ValueError", <<"Replacement category not found">>, 0))
    ELSE IF category_id = replacement_id
    THEN DbResult(db, Raises("ValueError", <<"Cannot replace category with itself">>, 0))
    ELSE DbResult(
             CategoriesDeleted(
                 Recounted(Replaced(db, db.categories[category_id].full_path,
                                    db.categories[replacement_id].full_path),
                           replacement_id, db.categories[replacement_id].full_path),
                 category_id, db.categories[category_id].full_path),
             Returns(0))

\* the batches created here: transactions of a parent and of its child; of
\* a category whose parent differs from Food in case only, and of none
CategorizedInputs ==
    { <<ServiceTransaction(<<"Food">>, <<>>), ServiceTransaction(<<"Food", ":", "Sub">>, <<>>)>>,
      <<ServiceTransaction(<<"food", ":", "x">>, <<>>), ServiceTransaction(<<>>, <<>>)>>,
      <<ServiceTransaction(<<"Other">>, <<>>), ServiceTransaction(<<"Food", ":", "Sub">>, <<>>)>> }

\* the ids a call names: those of the rows there are, and one beyond
TargetCategories == 1..5

CallDeleteCategory(category_id, replacement_id) ==
    Answer("delete_category_with_replacement", category_id, <<replacement_id>>, None, None,
           delete_category_with_replacement(database, category_id, replacement_id))

CreateCategorized(txns) ==
    /\ database.batch_seq < MaxBatches
    /\ Answer("create_batch", 0, <<>>, None, None, create_batch(database, <<"b">>, 1, txns))

Recategorize(transaction_id, category) ==
    Answer("update_transaction", 0, <<transaction_id>>, category, None,
           update_transaction(database, transaction_id, category, None))

\* The categories of ImportedCategories and food:x, a child of a parent
\* 'food' that is not in the table.
CategoryInit ==
    /\ file_content = <<>>
    /\ libcPadsYear = TRUE
    /\ detected = NotCalled("")
    /\ factory = NotCalled("")
    /\ validated = [by |-> "", errors |-> <<>>]
    /\ parsed = [by |-> "", result |-> NotCalled(<<>>)]
    /\ generated = NotCalled(<<>>)
    /\ reparsed = NotCalled(<<>>)
    /\ frames = [c \in Callers |-> Idle]
    /\ database = [EmptyDb EXCEPT !.categories =
                      @ @@ (4 :> [full_path |-> <<"food", ":", "x">>, usage_count |-> 0])]
    /\ request = NoRequest
    /\ NothingElse

CategoryNext ==
    \/ \E txns \in CategorizedInputs : CreateCategorized(txns)
    \/ \E category_id \in TargetCategories, replacement_id \in TargetCategories :
          CallDeleteCategory(category_id, replacement_id)
    \/ \E t \in TargetTransactions, category \in {<<"Other">>, <<"Food", ":", "Sub">>} :
          Recategorize(t, category)

CategorySpec == CategoryInit /\ [][CategoryNext]_vars

\* The full_paths of the categories a call took out of the table.
DeletedBy(req, db) ==
    {req.before.categories[c].full_path :
        c \in DOMAIN req.before.categories \ DOMAIN db.categories}

\* C28: after delete_category_with_replacement returned, no transaction
\* references a category the call deleted, every transaction that
\* referenced one references the replacement, and the replacement is
\* still in the table.
C28_ReplacementTakesOver ==
    request.op = "delete_category_with_replacement" /\ request.result.exc = "" =>
        /\ request.transaction_ids[1] \in DOMAIN database.categories
        /\ \A t \in DOMAIN database.transactions :
               /\ database.transactions[t].category \notin DeletedBy(request, database)
               /\ request.before.transactions[t].category \in DeletedBy(request, database)
                      => database.transactions[t].category
                             = request.before.categories[request.transaction_ids[1]].full_path

\* A category was deleted with a replacement that is not below it, and
\* the transactions of the category and of its child went to the
\* replacement.
C28_Replaced ==
    /\ request.op = "delete_category_with_replacement"
    /\ request.result.exc = ""
    /\ request.batch_id = 1
    /\ request.transaction_ids = <<3>>
    /\ \E t \in DOMAIN database.transactions :
           /\ request.before.transactions[t].category = <<"Food", ":", "Sub">>
           /\ database.transactions[t].category = <<"Other">>

\* ------------------------------------------------- the websockets --
\* ConnectionManager (app/websocket/connection_manager.py) and the
\* coroutines that use it on one event loop: websocket_endpoint of each
\* websocket (app/routers/websocket.py) and a call of broadcast_to_batch.
\* A coroutine runs until its next await; at an await the others run.
\* What the peer of a websocket does is the environment's: a receive
\* returns a message or raises, a send returns or raises.

MaxSockets == 2

Websockets == 1..MaxSockets

\* the batch ids clients name; 0 stands for a batch_id that is not truthy
SubscribedBatches == {0, 1}

connect(mgr, websocket, user_id) ==
    [mgr EXCEPT !.active_connections = (websocket :> user_id) @@ @]

\* The subscriptions without websocket, and without the sets that are empty.
Unsubscribed(subscriptions, websocket, batch_ids) ==
    LET left == [b \in DOMAIN subscriptions |->
                    IF b \in batch_ids THEN subscriptions[b] \ {websocket}
                    ELSE subscriptions[b]]
    IN  [b \in {x \in DOMAIN left : left[x] # {}} |-> left[b]]

disconnect(mgr, websocket) ==
    [active_connections |-> Without(mgr.active_connections, {websocket}),
     batch_subscriptions |-> Unsubscribed(mgr.batch_subscriptions, websocket,
                                          DOMAIN mgr.batch_subscriptions)]

subscribe_to_batch(mgr, websocket, batch_id) ==
    [mgr EXCEPT !.batch_subscriptions =
        IF batch_id \in DOMAIN @ THEN [@ EXCEPT ![batch_id] = @ \cup {websocket}]
        ELSE (batch_id :> {websocket}) @@ @]

unsubscribe_from_batch(mgr, websocket, batch_id) ==
    [mgr EXCEPT !.batch_subscriptions = Unsubscribed(@, websocket, {batch_id})]

\* The set broadcast_to_batch iterates is the object the manager held when
\* the loop began.  When its last member goes, the manager deletes its key,
\* and a later subscription makes a new set: the iterator keeps the old one,
\* which is empty.
Detached(bc, mgr) ==
    IF bc.pc = "send" /\ bc.batch_id \notin DOMAIN mgr.batch_subscriptions
    THEN [bc EXCEPT !.detached = TRUE]
    ELSE bc

\* The members of the set the iterator of bc is on.
Iterated(bc, mgr) ==
    IF bc.detached THEN {} ELSE mgr.batch_subscriptions[bc.batch_id]

\* A step of a coroutine of a websocket left the manager as mgr.
Manage(websocket, pc, mgr) ==
    /\ manager' = mgr
    /\ endpoints' = [endpoints EXCEPT ![websocket] = pc]
    /\ broadcast' = Detached(broadcast, mgr)
    /\ UNCHANGED <<file_content, libcPadsYear, detected, factory, validated, parsed,
                   generated, reparsed, frames, database, request, threads>>

\* websocket_endpoint: no session, or an invalid one.
Reject(websocket) ==
    /\ endpoints[websocket] = "new"
    /\ Manage(websocket, "ended", manager)

\* websocket_endpoint: await manager.connect(websocket, user_id)
Accept(websocket) ==
    /\ endpoints[websocket] = "new"
    /\ Manage(websocket, "receive", connect(manager, websocket, 1))

\* websocket_endpoint: data = await websocket.receive_json() returned a
\* message, up to the await of send_personal_message.
Receive(websocket, message_type, batch_id) ==
    /\ endpoints[websocket] = "receive"
    /\ IF message_type = "subscribe" /\ batch_id # 0
       THEN Manage(websocket, "reply", subscribe_to_batch(manager, websocket, batch_id))
       ELSE IF message_type = "unsubscribe" /\ batch_id # 0
       THEN Manage(websocket, "reply", unsubscribe_from_batch(manager, websocket, batch_id))
       ELSE IF message_type = "ping"
       THEN Manage(websocket, "reply", manager)
       ELSE Manage(websocket, "receive", manager)

\* websocket_endpoint: receive_json raised WebSocketDisconnect or another
\* exception.
ReceiveRaises(websocket) ==
    /\ endpoints[websocket] = "receive"
    /\ Manage(websocket, "ended", disconnect(manager, websocket))

\* send_personal_message: await websocket.send_json(message) returned, or
\* raised and the manager disconnected the websocket; either way the loop
\* of websocket_endpoint goes on.
Reply(websocket, raised) ==
    /\ endpoints[websocket] = "reply"
    /\ Manage(websocket, "receive",
              IF raised THEN disconnect(manager, websocket) ELSE manager)

\* A step of broadcast_to_batch.
Broadcasting(bc, mgr) ==
    /\ broadcast' = bc
    /\ manager' = mgr
    /\ UNCHANGED <<file_content, libcPadsYear, detected, factory, validated, parsed,
                   generated, reparsed, frames, database, request, threads, endpoints>>

RECURSIVE DisconnectAll(_, _)
DisconnectAll(mgr, websockets) ==
    IF websockets = {} THEN mgr
    ELSE LET websocket == CHOOSE w \in websockets : TRUE
         IN  DisconnectAll(disconnect(mgr, websocket), websockets \ {websocket})

\* broadcast_to_batch from a next() of its loop,
\* `for websocket in self.batch_subscriptions[batch_id]`, to its next await
\* or to its end: no other coroutine runs in between, and the excluded
\* websocket is passed over without an await.
\* A set whose size is not the size it had when the iterator was made
\* raises RuntimeError (Set changed size during iteration).  A set of that
\* size whose members changed is iterated as its table lies: the iterator
\* comes to a member that joined since the last next(), or does not.
\* After the loop, the dead connections are disconnected.
Loop(bc, joined) ==
    IF Cardinality(Iterated(bc, manager)) # bc.used
    THEN /\ joined = {}
         /\ Broadcasting([bc EXCEPT !.pc = "raised"], manager)
    ELSE /\ joined \subseteq Iterated(bc, manager) \ bc.last
         /\ LET todo == ((bc.todo \cap Iterated(bc, manager)) \cup joined) \ {bc.exclude}
            IN  IF todo = {}
                THEN Broadcasting([bc EXCEPT !.pc = "returned", !.todo = {}],
                                  DisconnectAll(manager, bc.dead_connections))
                ELSE \E websocket \in todo :
                         Broadcasting([bc EXCEPT !.pc = "send",
                                                 !.websocket = websocket,
                                                 !.last = Iterated(bc, manager),
                                                 !.todo = todo \ {websocket}],
                                      manager)

\* broadcast_to_batch from its call to its first await, or to its return
\* when nobody is subscribed to the batch or only the excluded websocket is.
StartBroadcast(batch_id, exclude) ==
    /\ broadcast.pc = "none"
    /\ IF batch_id \notin DOMAIN manager.batch_subscriptions
       THEN Broadcasting([NoBroadcast EXCEPT !.pc = "returned", !.batch_id = batch_id,
                                             !.exclude = exclude], manager)
       ELSE Loop([NoBroadcast EXCEPT
                      !.batch_id = batch_id, !.exclude = exclude,
                      !.used = Cardinality(manager.batch_subscriptions[batch_id]),
                      !.last = manager.batch_subscriptions[batch_id],
                      !.todo = manager.batch_subscriptions[batch_id],
                      !.at_start = manager.batch_subscriptions[batch_id]],
                 {})

\* await websocket.send_json(message) returned, or raised and the
\* websocket joined dead_connections; then the loop goes on.
Sent(raised, joined) ==
    /\ broadcast.pc = "send"
    /\ Loop([broadcast EXCEPT
                 !.sent = @ \cup {broadcast.websocket},
                 !.dead_connections = IF raised THEN @ \cup {broadcast.websocket}
                                      ELSE @],
            joined)

\* The caller of broadcast_to_batch has its answer; another broadcast can
\* begin.
BroadcastOver ==
    /\ broadcast.pc \in {"returned", "raised"}
    /\ Broadcasting(NoBroadcast, manager)

WsInit ==
    /\ file_content = <<>>
    /\ libcPadsYear = TRUE
    /\ detected = NotCalled("")
    /\ factory = NotCalled("")
    /\ validated = [by |-> "", errors |-> <<>>]
    /\ parsed = [by |-> "", result |-> NotCalled(<<>>)]
    /\ generated = NotCalled(<<>>)
    /\ reparsed = NotCalled(<<>>)
    /\ frames = [c \in Callers |-> Idle]
    /\ database = EmptyDb
    /\ request = NoRequest
    /\ threads = <<>>
    /\ manager = NewManager
    /\ endpoints = [w \in Websockets |-> "new"]
    /\ broadcast = NoBroadcast

WsNext ==
    \/ \E w \in Websockets : Reject(w)
    \/ \E w \in Websockets : Accept(w)
    \/ \E w \in Websockets, message_type \in {"subscribe", "unsubscribe", "ping", "other"},
          batch_id \in SubscribedBatches : Receive(w, message_type, batch_id)
    \/ \E w \in Websockets : ReceiveRaises(w)
    \/ \E w \in Websockets, raised \in BOOLEAN : Reply(w, raised)
    \/ \E batch_id \in SubscribedBatches \ {0}, exclude \in {0, 1} :
          StartBroadcast(batch_id, exclude)
    \/ \E raised \in BOOLEAN, joined \in SUBSET Websockets : Sent(raised, joined)
    \/ BroadcastOver

WsSpec == WsInit /\ [][WsNext]_vars

\* C29: every websocket in a set of batch_subscriptions is a key of
\* active_connections.
C29_SubscribersAreConnected ==
    \A b \in DOMAIN manager.batch_subscriptions :
        manager.batch_subscriptions[b] \subseteq DOMAIN manager.active_connections

\* C30: a call of broadcast_to_batch that is over returned, and tried to
\* send to every websocket that was subscribed to the batch when it began,
\* but for the excluded one.
C30_BroadcastReachesAll ==
    broadcast.pc \in {"returned", "raised"} =>
        /\ broadcast.pc = "returned"
        /\ broadcast.at_start \ {broadcast.exclude} \subseteq broadcast.sent

\* A broadcast to two subscribers returned after a send to each, while
\* nothing changed the set.
C30_Undisturbed ==
    /\ broadcast.pc = "returned"
    /\ Cardinality(broadcast.at_start) = 2
    /\ broadcast.sent = broadcast.at_start

\* A broadcast to two subscribers awaited its first send while the other
\* subscriber left the batch, and the next() of its loop raised.
C30_Raised ==
    /\ broadcast.pc = "raised"
    /\ Cardinality(broadcast.at_start) = 2
    /\ Cardinality(broadcast.sent) = 1

====
